---- MODULE Spec2Model ----
(***************************************************************************)
(* Model of the Gmail payload walkers of server/mcp_toolkit.py:            *)
(* extract_text_from_payload, extract_email_body, strip_html_tags,         *)
(* format_file_size, get_attachment_info and the nested                    *)
(* extract_attachments_recursive of gmail_find_messages_with_attachments.  *)
(*                                                                         *)
(* Representation.  A Python str or bytes value is a sequence of code      *)
(* points (naturals); None is the one-element sequence <<-1>>, which no    *)
(* str can equal.  A Python dict is a function whose DOMAIN is its set of  *)
(* keys, so "'parts' in part" is "parts" \in DOMAIN part and d.get(k, v)   *)
(* is Get(d, k, v).  A call that can raise yields Return(v) or Raise(e).    *)
(***************************************************************************)
EXTENDS Integers, Sequences, FiniteSets, TLC

\* ------------------------------------------------------------------------
\* Python values
\* ------------------------------------------------------------------------
None == <<-1>>

EmptyDict == [k \in {} |-> None]

Get(d, k, default) == IF k \in DOMAIN d THEN d[k] ELSE default

\* bool(x) of a str or None
Truthy(x) == x # None /\ x # <<>>

\* outcome of a call: the returned value, or the exception that left it
Return(v) == [raised |-> FALSE, value |-> v]

Raise(e) == [raised |-> TRUE, value |-> e]

\* ------------------------------------------------------------------------
\* String literals of the source, as code points
\* ------------------------------------------------------------------------
\* 'text/plain'
TextPlain == <<116, 101, 120, 116, 47, 112, 108, 97, 105, 110>>

\* 'text/html'
TextHtml == <<116, 101, 120, 116, 47, 104, 116, 109, 108>>

\* "No readable text content found."
NoReadableText == <<78, 111, 32, 114, 101, 97, 100, 97, 98, 108, 101, 32, 116, 101, 120, 116, 32, 99, 111, 110, 116, 101, 110, 116, 32, 102, 111, 117, 110, 100, 46>>

\* ------------------------------------------------------------------------
\* base64.urlsafe_b64decode(data)
\* ------------------------------------------------------------------------
\* value of one character in the alphabet, after the url-safe translation
\* of '-' to '+' and '_' to '/'; -1 for a character outside the alphabet
B64Value(c) ==
    IF c >= 65 /\ c <= 90 THEN c - 65
    ELSE IF c >= 97 /\ c <= 122 THEN c - 71
    ELSE IF c >= 48 /\ c <= 57 THEN c + 4
    ELSE IF c = 45 \/ c = 43 THEN 62
    ELSE IF c = 95 \/ c = 47 THEN 63
    ELSE -1

RECURSIVE A2bBase64(_, _, _, _, _, _)
\* binascii.a2b_base64 without strict mode: characters outside the alphabet
\* are skipped, a completed pad sequence ends the input, and a quad left
\* open at the end of the input raises binascii.Error
A2bBase64(s, i, quad_pos, leftchar, pads, out) ==
    IF i > Len(s) THEN [ok |-> quad_pos = 0, bytes |-> out]
    ELSE IF s[i] = 61 THEN
        IF quad_pos >= 2 /\ quad_pos + pads + 1 >= 4
        THEN [ok |-> TRUE, bytes |-> out]
        ELSE A2bBase64(s, i + 1, quad_pos, leftchar,
                       IF quad_pos >= 2 THEN pads + 1 ELSE pads, out)
    ELSE IF B64Value(s[i]) < 0 THEN A2bBase64(s, i + 1, quad_pos, leftchar, pads, out)
    ELSE LET v == B64Value(s[i]) IN
         CASE quad_pos = 0 -> A2bBase64(s, i + 1, 1, v, 0, out)
           [] quad_pos = 1 -> A2bBase64(s, i + 1, 2, v % 16, 0,
                                        Append(out, leftchar * 4 + (v \div 16)))
           [] quad_pos = 2 -> A2bBase64(s, i + 1, 3, v % 4, 0,
                                        Append(out, leftchar * 16 + (v \div 4)))
           [] quad_pos = 3 -> A2bBase64(s, i + 1, 0, 0, 0,
                                        Append(out, leftchar * 64 + v))

UrlsafeB64Decode(data) == A2bBase64(data, 1, 0, 0, 0, <<>>)

\* ------------------------------------------------------------------------
\* bytes.decode('utf-8', errors='ignore')
\* ------------------------------------------------------------------------
IsContinuation(b) == b >= 128 /\ b <= 191

\* number of bytes of the sequence a lead byte announces, 0 for a byte that
\* cannot start a sequence
Utf8Need(b) ==
    IF b < 128 THEN 1
    ELSE IF b >= 194 /\ b <= 223 THEN 2
    ELSE IF b >= 224 /\ b <= 239 THEN 3
    ELSE IF b >= 240 /\ b <= 244 THEN 4
    ELSE 0

\* the second byte of a 3- or 4-byte sequence has a narrower range for the
\* lead bytes E0, ED, F0 and F4 (overlong forms, surrogates, > U+10FFFF)
Utf8SecondOk(b0, b1) ==
    /\ IsContinuation(b1)
    /\ (b0 = 224 => b1 >= 160)
    /\ (b0 = 237 => b1 <= 159)
    /\ (b0 = 240 => b1 >= 144)
    /\ (b0 = 244 => b1 <= 143)

RECURSIVE Utf8DecodeIgnore(_, _, _)
\* the error handler 'ignore' drops the bytes of each undecodable range:
\* one byte for an invalid start byte, the valid prefix of a sequence whose
\* next byte is not a continuation, the rest of the input for a sequence
\* the input ends in
Utf8DecodeIgnore(b, i, out) ==
    IF i > Len(b) THEN out
    ELSE LET n == Utf8Need(b[i])
             have == Len(b) - i + 1
         IN
         IF n = 0 THEN Utf8DecodeIgnore(b, i + 1, out)
         ELSE IF n = 1 THEN Utf8DecodeIgnore(b, i + 1, Append(out, b[i]))
         ELSE IF have < 2 THEN out
         ELSE IF ~Utf8SecondOk(b[i], b[i + 1]) THEN Utf8DecodeIgnore(b, i + 1, out)
         ELSE IF n = 2 THEN
              Utf8DecodeIgnore(b, i + 2, Append(out, (b[i] - 192) * 64 + (b[i + 1] - 128)))
         ELSE IF have < 3 THEN out
         ELSE IF ~IsContinuation(b[i + 2]) THEN Utf8DecodeIgnore(b, i + 2, out)
         ELSE IF n = 3 THEN
              Utf8DecodeIgnore(b, i + 3,
                  Append(out, (b[i] - 224) * 4096 + (b[i + 1] - 128) * 64 + (b[i + 2] - 128)))
         ELSE IF have < 4 THEN out
         ELSE IF ~IsContinuation(b[i + 3]) THEN Utf8DecodeIgnore(b, i + 3, out)
         ELSE Utf8DecodeIgnore(b, i + 4,
                  Append(out, (b[i] - 240) * 262144 + (b[i + 1] - 128) * 4096
                              + (b[i + 2] - 128) * 64 + (b[i + 3] - 128)))

\* base64.urlsafe_b64decode(data).decode('utf-8', errors='ignore'):
\* ok is FALSE when the base64 layer raises, else text is the decoded str
DecodeData(data) ==
    LET r == UrlsafeB64Decode(data) IN
    [ok |-> r.ok, text |-> IF r.ok THEN Utf8DecodeIgnore(r.bytes, 1, <<>>) ELSE <<>>]

\* ------------------------------------------------------------------------
\* strip_html_tags
\* ------------------------------------------------------------------------
\* str.isspace / the regex class \s on a str pattern
IsSpace(c) ==
    \/ c >= 9 /\ c <= 13
    \/ c >= 28 /\ c <= 32
    \/ c \in {133, 160, 5760, 8232, 8233, 8239, 8287, 12288}
    \/ c >= 8192 /\ c <= 8202

\* index of the first '>' after position i, 0 when there is none
FirstGt(s, i) ==
    IF \E j \in (i + 1)..Len(s) : s[j] = 62
    THEN CHOOSE j \in (i + 1)..Len(s) :
             s[j] = 62 /\ \A k \in (i + 1)..(j - 1) : s[k] # 62
    ELSE 0

RECURSIVE RemoveTags(_, _, _)
\* re.sub('<.*?>', '', s): a '<' starts a match when the text up to the
\* next '>' holds no line feed ('.' does not match '\n')
RemoveTags(s, i, out) ==
    IF i > Len(s) THEN out
    ELSE LET j == FirstGt(s, i) IN
         IF s[i] = 60 /\ j > 0 /\ (\A k \in (i + 1)..(j - 1) : s[k] # 10)
         THEN RemoveTags(s, j + 1, out)
         ELSE RemoveTags(s, i + 1, Append(out, s[i]))

\* the named character references the model knows, each present in
\* html.entities.html5 with and without the closing ';'
\* lt, gt, amp, nbsp, quot
EntityChar(name) ==
    IF name = <<108, 116>> THEN 60
    ELSE IF name = <<103, 116>> THEN 62
    ELSE IF name = <<97, 109, 112>> THEN 38
    ELSE IF name = <<110, 98, 115, 112>> THEN 160
    ELSE IF name = <<113, 117, 111, 116>> THEN 34
    ELSE -1

\* [^\t\n\f <&#;]
IsNameChar(c) == c \notin {9, 10, 12, 32, 60, 38, 35, 59}

\* last index of the run [^\t\n\f <&#;]{1,32} that starts at i + 1
NameEnd(s, i) ==
    CHOOSE j \in i..Len(s) :
        /\ j - i <= 32
        /\ \A k \in (i + 1)..j : IsNameChar(s[k])
        /\ (j = Len(s) \/ j - i = 32 \/ ~IsNameChar(s[j + 1]))

\* html._replace_charref for a named reference: the whole name, else the
\* longest prefix of at least two characters that is a known name followed
\* by the rest, else the text unchanged
ReplaceCharref(name, semi) ==
    LET whole == name \o (IF semi THEN <<59>> ELSE <<>>)
        xs == {x \in 2..(Len(whole) - 1) : EntityChar(SubSeq(whole, 1, x)) >= 0}
    IN
    IF EntityChar(name) >= 0 THEN <<EntityChar(name)>>
    ELSE IF xs # {} THEN
         LET x == CHOOSE y \in xs : \A z \in xs : z <= y IN
         <<EntityChar(SubSeq(whole, 1, x))>> \o SubSeq(whole, x + 1, Len(whole))
    ELSE <<38>> \o whole

RECURSIVE Unescape(_, _, _)
\* html.unescape on text without numeric references ('&#...'), which the
\* modelled inputs do not contain
Unescape(s, i, out) ==
    IF i > Len(s) THEN out
    ELSE IF s[i] = 38 /\ NameEnd(s, i) > i THEN
         LET j == NameEnd(s, i)
             semi == j < Len(s) /\ s[j + 1] = 59
         IN Unescape(s, IF semi THEN j + 2 ELSE j + 1,
                     out \o ReplaceCharref(SubSeq(s, i + 1, j), semi))
    ELSE Unescape(s, i + 1, Append(out, s[i]))

RECURSIVE CollapseSpace(_, _, _)
\* re.sub(r'\s+', ' ', s)
CollapseSpace(s, i, out) ==
    IF i > Len(s) THEN out
    ELSE IF IsSpace(s[i]) THEN
         IF i > 1 /\ IsSpace(s[i - 1])
         THEN CollapseSpace(s, i + 1, out)
         ELSE CollapseSpace(s, i + 1, Append(out, 32))
    ELSE CollapseSpace(s, i + 1, Append(out, s[i]))

\* str.strip()
Strip(s) ==
    LET keep == {i \in 1..Len(s) : ~IsSpace(s[i])} IN
    IF keep = {} THEN <<>>
    ELSE SubSeq(s, CHOOSE i \in keep : \A k \in keep : i <= k,
                   CHOOSE i \in keep : \A k \in keep : k <= i)

strip_html_tags(html_content) ==
    IF ~Truthy(html_content) THEN <<>>
    ELSE Strip(CollapseSpace(Unescape(RemoveTags(html_content, 1, <<>>), 1, <<>>), 1, <<>>))

\* ------------------------------------------------------------------------
\* format_file_size (the second definition, which is the one bound to the
\* name when the walkers run)
\* ------------------------------------------------------------------------
RECURSIVE NatToStr(_)
NatToStr(n) == IF n < 10 THEN <<48 + n>> ELSE Append(NatToStr(n \div 10), 48 + (n % 10))

\* str(n) of an int
IntToStr(n) == IF n < 0 THEN <<45>> \o NatToStr(-n) ELSE NatToStr(n)

IsDigit(c) == c >= 48 /\ c <= 57

RECURSIVE DigitsValue(_, _, _)
DigitsValue(s, i, acc) ==
    IF i > Len(s) THEN acc
    ELSE IF s[i] = 95 THEN DigitsValue(s, i + 1, acc)
    ELSE DigitsValue(s, i + 1, acc * 10 + (s[i] - 48))

\* int(s) of a str: surrounding whitespace, an optional sign, decimal
\* digits with single underscores between them; ok is FALSE for ValueError
ParseInt(s) ==
    LET t == Strip(s)
        signed == Len(t) > 0 /\ t[1] \in {43, 45}
        d == IF signed THEN SubSeq(t, 2, Len(t)) ELSE t
        wellFormed ==
            /\ Len(d) > 0
            /\ \A i \in 1..Len(d) :
                \/ IsDigit(d[i])
                \/ d[i] = 95 /\ i > 1 /\ i < Len(d) /\ IsDigit(d[i - 1]) /\ IsDigit(d[i + 1])
    IN
    IF ~wellFormed THEN [ok |-> FALSE, value |-> 0]
    ELSE [ok |-> TRUE,
          value |-> IF signed /\ t[1] = 45 THEN -DigitsValue(d, 1, 0) ELSE DigitsValue(d, 1, 0)]

RECURSIVE Pow1024(_)
Pow1024(k) == IF k = 0 THEN 1 ELSE 1024 * Pow1024(k - 1)

\* f"{n / 1024**k:.1f}": the quotient is exact in binary floating point for
\* the sizes modelled (below 2**27, so that ten times a size stays within
\* 32-bit integers), and the format rounds the exact value to one
\* decimal, ties to the even digit
Format1f(n, k) ==
    LET a == IF n < 0 THEN -n ELSE n
        den == Pow1024(k)
        q == (a * 10) \div den
        r == (a * 10) % den
        tenths == IF 2 * r > den \/ (2 * r = den /\ q % 2 = 1) THEN q + 1 ELSE q
    IN (IF n < 0 THEN <<45>> ELSE <<>>)
       \o NatToStr(tenths \div 10) \o <<46, 48 + (tenths % 10)>>

\* ' B', ' KB', ' MB', ' GB', ' TB'
UnitSuffix == << <<32, 66>>, <<32, 75, 66>>, <<32, 77, 66>>, <<32, 71, 66>>, <<32, 84, 66>> >>

RECURSIVE FormatLoop(_, _)
\* the loop over the units: before iteration k the variable size holds
\* n / 1024**k, and size < 1024 is n \div 1024**k < 1024
FormatLoop(n, k) ==
    IF k = 4 THEN Format1f(n, 4) \o UnitSuffix[5]
    ELSE IF n \div Pow1024(k) < 1024 THEN Format1f(n, k) \o UnitSuffix[k + 1]
    ELSE FormatLoop(n, k + 1)

\* the size left as it came
format_file_sizeUnformatted(size_str) == size_str

format_file_size(size_str) ==
    LET size == ParseInt(size_str) IN
    IF size.ok THEN FormatLoop(size.value, 0) ELSE size_str

\* ------------------------------------------------------------------------
\* extract_text_from_payload and extract_email_body
\* ------------------------------------------------------------------------
RECURSIVE extract_text_from_payload(_, _)
RECURSIVE ExtractFromParts(_, _, _)
RECURSIVE ExtractFromPartsReversed(_, _, _)
RECURSIVE ExtractFromPartsEmptyText(_, _, _)

\* the loop with the parts visited last to first
ExtractFromPartsReversed(parts, i, mime_type) ==
    IF i > Len(parts) THEN None
    ELSE LET later == ExtractFromPartsReversed(parts, i + 1, mime_type) IN
         IF Truthy(later) THEN later
         ELSE extract_text_from_payload(parts[i], mime_type)

\* the loop with '' for None when it runs out
ExtractFromPartsEmptyText(parts, i, mime_type) ==
    IF i > Len(parts) THEN <<>>
    ELSE LET result == extract_text_from_payload(parts[i], mime_type) IN
         IF Truthy(result) THEN result
         ELSE ExtractFromPartsEmptyText(parts, i + 1, mime_type)

\* the loop "for part in payload.get('parts', [])": the first truthy result
\* of a part is returned, None when the loop runs out
ExtractFromParts(parts, i, mime_type) ==
    IF i > Len(parts) THEN None
    ELSE LET result == extract_text_from_payload(parts[i], mime_type) IN
         IF Truthy(result) THEN result
         ELSE ExtractFromParts(parts, i + 1, mime_type)

extract_text_from_payload(payload, mime_type) ==
    LET data == Get(Get(payload, "body", EmptyDict), "data", None) IN
    IF Get(payload, "mimeType", None) = mime_type /\ Truthy(data)
    THEN LET decoded == DecodeData(data) IN
         IF decoded.ok THEN decoded.text ELSE None
    ELSE ExtractFromParts(Get(payload, "parts", <<>>), 1, mime_type)

\* the body with text/html tried before text/plain
extract_email_bodyHtmlFirst(payload) ==
    LET plain_text == extract_text_from_payload(payload, TextPlain)
        html_text == extract_text_from_payload(payload, TextHtml)
    IN
    IF Truthy(html_text) THEN strip_html_tags(html_text)
    ELSE IF Truthy(plain_text) THEN plain_text
    ELSE NoReadableText

extract_email_body(payload) ==
    LET plain_text == extract_text_from_payload(payload, TextPlain)
        html_text == extract_text_from_payload(payload, TextHtml)
    IN
    IF Truthy(plain_text) THEN plain_text
    ELSE IF Truthy(html_text) THEN strip_html_tags(html_text)
    ELSE NoReadableText

\* ------------------------------------------------------------------------
\* get_attachment_info
\* ------------------------------------------------------------------------
RECURSIVE process_parts(_, _, _)
RECURSIVE process_partsReversed(_, _, _)

\* the parts of each level visited last to first
process_partsReversed(parts, i, attachments) ==
    IF i > Len(parts) THEN Return(attachments)
    ELSE LET part == parts[Len(parts) + 1 - i] IN
         IF "parts" \in DOMAIN part THEN
              LET inner == process_parts(part["parts"], 1, attachments) IN
              IF inner.raised THEN inner ELSE process_partsReversed(parts, i + 1, inner.value)
         ELSE IF ~Truthy(Get(part, "filename", None)) \/ ~Truthy(Get(part["body"], "attachmentId", None))
              THEN process_partsReversed(parts, i + 1, attachments)
         ELSE IF "mimeType" \notin DOMAIN part THEN Raise("KeyError: 'mimeType'")
         ELSE process_partsReversed(parts, i + 1,
                  Append(attachments,
                         [filename |-> part["filename"],
                          mime_type |-> part["mimeType"],
                          size |-> format_file_size(IntToStr(Get(part["body"], "size", 0))),
                          attachment_id |-> part["body"]["attachmentId"]]))

\* the nested process_parts, with the list it appends to passed along; a
\* subscript of a missing key raises KeyError, which leaves every frame
process_parts(parts, i, attachments) ==
    IF i > Len(parts) THEN Return(attachments)
    ELSE LET part == parts[i] IN
         IF "parts" \in DOMAIN part THEN
              LET inner == process_parts(part["parts"], 1, attachments) IN
              IF inner.raised THEN inner ELSE process_parts(parts, i + 1, inner.value)
         ELSE IF ~Truthy(Get(part, "filename", None)) THEN process_parts(parts, i + 1, attachments)
         ELSE IF "body" \notin DOMAIN part THEN Raise("KeyError: 'body'")
         ELSE IF ~Truthy(Get(part["body"], "attachmentId", None))
              THEN process_parts(parts, i + 1, attachments)
         ELSE IF "mimeType" \notin DOMAIN part THEN Raise("KeyError: 'mimeType'")
         ELSE process_parts(parts, i + 1,
                  Append(attachments,
                         [filename |-> part["filename"],
                          mime_type |-> part["mimeType"],
                          size |-> format_file_size(IntToStr(Get(part["body"], "size", 0))),
                          attachment_id |-> part["body"]["attachmentId"]]))

get_attachment_info(payload) ==
    IF "parts" \in DOMAIN payload
    THEN process_parts(payload["parts"], 1, <<>>)
    ELSE Return(<<>>)

\* ------------------------------------------------------------------------
\* extract_attachments_recursive (nested in
\* gmail_find_messages_with_attachments)
\* ------------------------------------------------------------------------
\* 'application/vnd.google-apps'
GoogleAppsPrefix ==
    <<97, 112, 112, 108, 105, 99, 97, 116, 105, 111, 110, 47, 118, 110, 100, 46, 103, 111, 111, 103, 108, 101, 45, 97, 112, 112, 115>>

StartsWith(s, prefix) == Len(s) >= Len(prefix) /\ SubSeq(s, 1, Len(prefix)) = prefix

\* get_export_mime_type: document -> 'text/markdown', spreadsheet ->
\* 'text/csv', drawing -> 'image/png', presentation and the rest -> 'text/plain'
get_export_mime_type(google_mime_type) ==
    IF google_mime_type = GoogleAppsPrefix \o <<46, 100, 111, 99, 117, 109, 101, 110, 116>> THEN <<116, 101, 120, 116, 47, 109, 97, 114, 107, 100, 111, 119, 110>>
    ELSE IF google_mime_type = GoogleAppsPrefix \o <<46, 115, 112, 114, 101, 97, 100, 115, 104, 101, 101, 116>> THEN <<116, 101, 120, 116, 47, 99, 115, 118>>
    ELSE IF google_mime_type = GoogleAppsPrefix \o <<46, 100, 114, 97, 119, 105, 110, 103>> THEN <<105, 109, 97, 103, 101, 47, 112, 110, 103>>
    ELSE TextPlain

\* the dict built for one attachment; export_mime_type is a key of it only
\* for a Google Workspace file
AttachmentInfo(payload, filename, actual_mime) ==
    LET info == [filename |-> filename,
                 mime_type |-> actual_mime,
                 size_bytes |-> Get(Get(payload, "body", EmptyDict), "size", 0),
                 attachment_id |-> Get(Get(payload, "body", EmptyDict), "attachmentId", <<>>),
                 is_google_workspace |-> StartsWith(actual_mime, GoogleAppsPrefix)]
    IN IF info.is_google_workspace
       THEN info @@ ("export_mime_type" :> get_export_mime_type(actual_mime))
       ELSE info

RECURSIVE extract_attachments_recursive(_, _, _)
RECURSIVE ExtractAttachmentsFromParts(_, _, _, _)

\* the loop "for part in payload['parts']"
ExtractAttachmentsFromParts(parts, i, filter_mime_type, found_attachments) ==
    IF i > Len(parts) THEN found_attachments
    ELSE ExtractAttachmentsFromParts(parts, i + 1, filter_mime_type,
             extract_attachments_recursive(parts[i], filter_mime_type, found_attachments))

\* the collector without the test of the MIME filter
extract_attachments_recursiveUnfiltered(payload, filter_mime_type, found_attachments) ==
    IF "parts" \in DOMAIN payload
    THEN ExtractAttachmentsFromParts(payload["parts"], 1, filter_mime_type, found_attachments)
    ELSE LET filename == Strip(Get(payload, "filename", <<>>))
             actual_mime == Get(payload, "mimeType", <<>>)
         IN
         IF ~Truthy(filename) THEN found_attachments
         ELSE Append(found_attachments, AttachmentInfo(payload, filename, actual_mime))

\* the closure variables filter_mime_type and found_attachments are
\* parameters; the value is found_attachments after the call
extract_attachments_recursive(payload, filter_mime_type, found_attachments) ==
    IF "parts" \in DOMAIN payload
    THEN ExtractAttachmentsFromParts(payload["parts"], 1, filter_mime_type, found_attachments)
    ELSE LET filename == Strip(Get(payload, "filename", <<>>))
             actual_mime == Get(payload, "mimeType", <<>>)
         IN
         IF ~Truthy(filename) THEN found_attachments
         ELSE IF Truthy(filter_mime_type) /\ actual_mime # filter_mime_type THEN found_attachments
         ELSE Append(found_attachments, AttachmentInfo(payload, filename, actual_mime))

\* ------------------------------------------------------------------------
\* gmail_read_attchment_content
\* ------------------------------------------------------------------------
\* '.pdf'
DotPdf == <<46, 112, 100, 102>>

\* '.docx'
DotDocx == <<46, 100, 111, 99, 120>>

\* '.txt'
DotTxt == <<46, 116, 120, 116>>

\* 'attachment'
DefaultFilename == <<97, 116, 116, 97, 99, 104, 109, 101, 110, 116>>

\* 'No supported attachment (.pdf, .docx, .txt) found in this message.'
NoSupportedAttachment ==
    <<78, 111, 32, 115, 117, 112, 112, 111, 114, 116, 101, 100, 32, 97, 116, 116, 97, 99, 104, 109,
      101, 110, 116, 32, 40, 46, 112, 100, 102, 44, 32, 46, 100, 111, 99, 120, 44, 32, 46, 116,
      120, 116, 41, 32, 102, 111, 117, 110, 100, 32, 105, 110, 32, 116, 104, 105, 115, 32, 109,
      101, 115, 115, 97, 103, 101, 46>>

\* 'No attachment with ID '
NoAttachmentWithId ==
    <<78, 111, 32, 97, 116, 116, 97, 99, 104, 109, 101, 110, 116, 32, 119, 105, 116, 104, 32, 73,
      68, 32>>

\* ' found in message '
FoundInMessage ==
    <<32, 102, 111, 117, 110, 100, 32, 105, 110, 32, 109, 101, 115, 115, 97, 103, 101, 32>>

\* 'Unsupported file type: '
UnsupportedFileType ==
    <<85, 110, 115, 117, 112, 112, 111, 114, 116, 101, 100, 32, 102, 105, 108, 101, 32, 116, 121,
      112, 101, 58, 32>>

\* 'Attachment was processed but no extractable text was found.'
NoExtractableText ==
    <<65, 116, 116, 97, 99, 104, 109, 101, 110, 116, 32, 119, 97, 115, 32, 112, 114, 111, 99, 101,
      115, 115, 101, 100, 32, 98, 117, 116, 32, 110, 111, 32, 101, 120, 116, 114, 97, 99, 116, 97,
      98, 108, 101, 32, 116, 101, 120, 116, 32, 119, 97, 115, 32, 102, 111, 117, 110, 100, 46>>

\* 'Error extracting attachment text: '
ErrorExtracting ==
    <<69, 114, 114, 111, 114, 32, 101, 120, 116, 114, 97, 99, 116, 105, 110, 103, 32, 97, 116, 116,
      97, 99, 104, 109, 101, 110, 116, 32, 116, 101, 120, 116, 58, 32>>

\* 'File ''
TooLargeFile == <<70, 105, 108, 101, 32, 39>>

\* '' is too large ('
TooLargeIsTooLarge == <<39, 32, 105, 115, 32, 116, 111, 111, 32, 108, 97, 114, 103, 101, 32, 40>>

\* ' tokens). Maximum allowed is '
TooLargeMaximum ==
    <<32, 116, 111, 107, 101, 110, 115, 41, 46, 32, 77, 97, 120, 105, 109, 117, 109, 32, 97, 108,
      108, 111, 119, 101, 100, 32, 105, 115, 32>>

\* ' tokens. The file will not be loaded.'
TooLargeTail ==
    <<32, 116, 111, 107, 101, 110, 115, 46, 32, 84, 104, 101, 32, 102, 105, 108, 101, 32, 119, 105,
      108, 108, 32, 110, 111, 116, 32, 98, 101, 32, 108, 111, 97, 100, 101, 100, 46>>

\* str() of the binascii.Error of base64.urlsafe_b64decode: 'Incorrect padding'
IncorrectPadding ==
    <<73, 110, 99, 111, 114, 114, 101, 99, 116, 32, 112, 97, 100, 100, 105, 110, 103>>

\* str() of the AttributeError of None.users()
NoneHasNoUsers ==
    <<39, 78, 111, 110, 101, 84, 121, 112, 101, 39, 32, 111, 98, 106, 101, 99, 116, 32, 104, 97,
      115, 32, 110, 111, 32, 97, 116, 116, 114, 105, 98, 117, 116, 101, 32, 39, 117, 115, 101, 114,
      115, 39>>

\* str() of an HttpError of the API client
HttpErrorText ==
    <<60, 72, 116, 116, 112, 69, 114, 114, 111, 114, 32, 53, 48, 48, 32, 34, 66, 97, 99, 107, 101,
      110, 100, 32, 69, 114, 114, 111, 114, 34, 62>>

\* str() of the PdfReadError of PdfReader on bytes that are no PDF
EofMarkerNotFound ==
    <<69, 79, 70, 32, 109, 97, 114, 107, 101, 114, 32, 110, 111, 116, 32, 102, 111, 117, 110, 100>>

\* str() of the BadZipFile of Document on bytes that are no DOCX
FileIsNotAZipFile ==
    <<70, 105, 108, 101, 32, 105, 115, 32, 110, 111, 116, 32, 97, 32, 122, 105, 112, 32, 102, 105,
      108, 101>>

\* str() of an error of tiktoken.get_encoding
UnknownEncoding ==
    <<85, 110, 107, 110, 111, 119, 110, 32, 101, 110, 99, 111, 100, 105, 110, 103, 32, 99, 108, 49,
      48, 48, 107, 95, 98, 97, 115, 101>>

MAX_TOKENS == 30000

\* str.lower() on ASCII text
Lower(s) == [i \in 1..Len(s) |-> IF s[i] >= 65 /\ s[i] <= 90 THEN s[i] + 32 ELSE s[i]]

\* str.endswith(suffix)
EndsWith(s, suffix) ==
    Len(s) >= Len(suffix) /\ SubSeq(s, Len(s) - Len(suffix) + 1, Len(s)) = suffix

\* filename.endswith((".pdf", ".docx", ".txt"))
EndsWithSupported(filename) ==
    EndsWith(filename, DotPdf) \/ EndsWith(filename, DotDocx) \/ EndsWith(filename, DotTxt)

\* part.get("body", {}).get("attachmentId")
BodyAttachmentId(part) == Get(Get(part, "body", EmptyDict), "attachmentId", None)

RECURSIVE AutoSelect(_, _)
RECURSIVE AutoSelectAnyFile(_, _)
RECURSIVE FindById(_, _, _)
RECURSIVE FindByIdAnyAttachment(_, _, _)

\* the first part that is an attachment whatever its extension
AutoSelectAnyFile(parts, i) ==
    IF i > Len(parts) THEN 0
    ELSE IF Truthy(BodyAttachmentId(parts[i])) THEN i
    ELSE AutoSelectAnyFile(parts, i + 1)

\* the loop of the auto-selection over the top-level parts: the index of
\* matched_part, 0 when the loop ends without a match
AutoSelect(parts, i) ==
    IF i > Len(parts) THEN 0
    ELSE IF /\ EndsWithSupported(Lower(Get(parts[i], "filename", <<>>)))
            /\ Truthy(BodyAttachmentId(parts[i]))
         THEN i
    ELSE AutoSelect(parts, i + 1)

\* the loop taking the first part that holds any attachment
FindByIdAnyAttachment(parts, i, attachment_id) ==
    IF i > Len(parts) THEN 0
    ELSE IF Truthy(BodyAttachmentId(parts[i])) THEN i
    ELSE FindByIdAnyAttachment(parts, i + 1, attachment_id)

\* the loop that looks for the part holding attachment_id
FindById(parts, i, attachment_id) ==
    IF i > Len(parts) THEN 0
    ELSE IF BodyAttachmentId(parts[i]) = attachment_id THEN i
    ELSE FindById(parts, i + 1, attachment_id)

RECURSIVE PdfText(_, _)
\* extracted_text after the loop over reader.pages; a page without text
\* gives None
PdfText(pages, i) ==
    IF i > Len(pages) THEN <<>>
    ELSE (IF pages[i] = None THEN <<>> ELSE pages[i]) \o PdfText(pages, i + 1)

RECURSIVE DocxText(_, _)
\* extracted_text after the loop over doc.paragraphs
DocxText(paragraphs, i) ==
    IF i > Len(paragraphs) THEN <<>>
    ELSE paragraphs[i] \o <<10>> \o DocxText(paragraphs, i + 1)

\* the text is refused from MAX_TOKENS tokens on
TooLargeAtCap(token_count_) == token_count_ >= MAX_TOKENS

\* token_count > MAX_TOKENS
TooLarge(token_count_) == token_count_ > MAX_TOKENS

\* the f-string of the size-limit return
TooLargeMessage(filename, token_count_) ==
    TooLargeFile \o filename \o TooLargeIsTooLarge \o IntToStr(token_count_)
    \o TooLargeMaximum \o IntToStr(MAX_TOKENS) \o TooLargeTail

\* a remote call as the handler issued it: the API method, its id or
\* maxResults argument, and whether it came back without an exception
Request(api, param, ok) == [api |-> api, param |-> param, ok |-> ok]

\* what one invocation leaves: the returned value, the remote calls
\* issued, the text extracted and the tokens counted
Outcome(result_, requests_, extracted_text_, token_count_) ==
    [result |-> result_, requests |-> requests_,
     extracted_text |-> extracted_text_, token_count |-> token_count_]

\* the except clause around the whole body
ExtractionError(e, requests_) ==
    Outcome(Return(ErrorExtracting \o e), requests_, None, -1)

\* from 'if not extracted_text.strip()' to the end, one outcome for each
\* count the tokenizer may give
AfterExtraction(filename, text, requests_, counts) ==
    IF Strip(text) = <<>>
    THEN {Outcome(Return(NoExtractableText), requests_, text, -1)}
    ELSE {Outcome(Return(IF TooLarge(n) THEN TooLargeMessage(filename, n) ELSE Strip(text)),
                  requests_, text, n) : n \in counts}

\* from the decoding of the downloaded data to the end; reads are what
\* PdfReader and Document may make of the bytes
AfterDownload(filename, attachment, requests_, reads, counts) ==
    LET decoded == UrlsafeB64Decode(attachment["data"]) IN
    IF ~decoded.ok THEN {ExtractionError(IncorrectPadding, requests_)}
    ELSE IF EndsWith(filename, DotPdf) THEN
         UNION {IF r.raised THEN {ExtractionError(r.value, requests_)}
                ELSE AfterExtraction(filename, PdfText(r.value, 1), requests_, counts) :
                r \in reads.pdf}
    ELSE IF EndsWith(filename, DotDocx) THEN
         UNION {IF r.raised THEN {ExtractionError(r.value, requests_)}
                ELSE AfterExtraction(filename, DocxText(r.value, 1), requests_, counts) :
                r \in reads.docx}
    ELSE IF EndsWith(filename, DotTxt) THEN
         AfterExtraction(filename, Utf8DecodeIgnore(decoded.bytes, 1, <<>>), requests_, counts)
    ELSE {Outcome(Return(UnsupportedFileType \o filename), requests_, None, -1)}

\* the handler from the selection of matched_part on; message is what
\* messages().get returned
AfterFetch(message, message_id, attachment_id, requests_, downloads, reads, counts) ==
    LET parts == Get(Get(message, "payload", EmptyDict), "parts", <<>>)
        auto == ~Truthy(attachment_id)
        matched == IF auto THEN AutoSelect(parts, 1) ELSE FindById(parts, 1, attachment_id)
    IN
    IF matched = 0 THEN
        {Outcome(Return(IF auto THEN NoSupportedAttachment
                        ELSE NoAttachmentWithId \o attachment_id \o FoundInMessage
                             \o message_id \o <<46>>),
                 requests_, None, -1)}
    ELSE
        LET matched_part == parts[matched]
            id == IF auto THEN matched_part["body"]["attachmentId"] ELSE attachment_id
            filename == Lower(Get(matched_part, "filename", DefaultFilename))
        IN
        UNION {LET issued == Append(requests_,
                                    Request("users.messages.attachments.get", id, ~d.raised))
               IN
               IF d.raised THEN {ExtractionError(d.value, issued)}
               ELSE AfterDownload(filename, d.value, issued, reads, counts) :
               d \in downloads}

\* gmail_read_attchment_content(message_id, attachment_id): the outcomes
\* the invocation may have, given the handle, whether the tokenizer loads,
\* what the two remote calls may answer, what the two document readers may
\* make of the bytes and what the tokenizer may count
gmail_read_attchment_content(message_id, attachment_id, gmail_service, encodings, messages, downloads, reads, counts) ==
    UNION {IF encoding.raised THEN {ExtractionError(encoding.value, <<>>)}
           ELSE IF gmail_service = None THEN {ExtractionError(NoneHasNoUsers, <<>>)}
           ELSE UNION {LET issued == <<Request("users.messages.get", message_id, ~m.raised)>> IN
                       IF m.raised THEN {ExtractionError(m.value, issued)}
                       ELSE AfterFetch(m.value, message_id, attachment_id, issued,
                                       downloads, reads, counts) :
                       m \in messages} :
           encoding \in encodings}

\* ------------------------------------------------------------------------
\* The service handles
\* ------------------------------------------------------------------------
\* what build() returns for 'drive', 'gmail', 'calendar' and 'docs'
DriveResource == <<100, 114, 105, 118, 101>>

GmailResource == <<103, 109, 97, 105, 108>>

CalendarResource == <<99, 97, 108, 101, 110, 100, 97, 114>>

DocsResource == <<100, 111, 99, 115>>

\* the handles as the module sets them when it is loaded
Uninitialized ==
    [drive_service |-> None, gmail_service |-> None,
     calendar_service |-> None, docs_service |-> None]

\* the handles after initialize_services ran to its end
Initialized ==
    [drive_service |-> DriveResource, gmail_service |-> GmailResource,
     calendar_service |-> CalendarResource, docs_service |-> DocsResource]

\* no earlier run on this payload
NoRun == [ran |-> FALSE, value |-> None]

\* ------------------------------------------------------------------------
\* What the tool handlers share
\* ------------------------------------------------------------------------
\* an exception: its class and its str()
Exception(type, text) == [type |-> type, text |-> text]

\* the HttpError of a remote call the API refused with status 500
ServerError == Exception("HttpError", HttpErrorText) @@ ("status" :> <<53, 48, 48>>)

\* a failure of the transport under a remote call, here a socket timeout
TimedOut == Exception("TimeoutError", <<116, 105, 109, 101, 100, 32, 111, 117, 116>>)

\* None.users(), None.events(), None.files(): the handle was never set
NoneHasNo(attribute) ==
    Exception("AttributeError",
              <<39, 78, 111, 110, 101, 84, 121, 112, 101, 39, 32, 111, 98, 106, 101, 99, 116, 32,
                    104, 97, 115, 32, 110, 111, 32, 97, 116, 116, 114, 105, 98, 117, 116, 101, 32,
                    39>> \o attribute \o <<39>>)

\* c in s
HasChar(s, c) == \E i \in 1..Len(s) : s[i] = c

\* s.split(c)[0]
BeforeFirst(s, c) ==
    IF HasChar(s, c)
    THEN SubSeq(s, 1, (CHOOSE i \in 1..Len(s) : s[i] = c /\ \A k \in 1..(i - 1) : s[k] # c) - 1)
    ELSE s

\* s.strip('"')
StripQuotes(s) ==
    LET keep == {i \in 1..Len(s) : s[i] # 34} IN
    IF keep = {} THEN <<>>
    ELSE SubSeq(s, CHOOSE i \in keep : \A k \in keep : i <= k,
                   CHOOSE i \in keep : \A k \in keep : k <= i)

\* from_addr.split('<')[0].strip().strip('"') if '<' in from_addr else from_addr
SenderClean(from_addr) ==
    IF HasChar(from_addr, 60) THEN StripQuotes(Strip(BeforeFirst(from_addr, 60)))
    ELSE from_addr

RECURSIVE HeaderValue(_, _, _, _)
\* next((h['value'] for h in headers if h['name'] == name), default)
HeaderValue(headers, i, name, default) ==
    IF i > Len(headers) THEN default
    ELSE IF headers[i].name = name THEN headers[i].value
    ELSE HeaderValue(headers, i + 1, name, default)

RECURSIVE Join(_, _, _)
\* sep.join(list), from the i-th element on
Join(sep, list, i) ==
    IF i > Len(list) THEN <<>>
    ELSE IF i = Len(list) THEN list[i]
    ELSE list[i] \o sep \o Join(sep, list, i + 1)

\* what a handler that extracts no attachment text leaves: the returned
\* value or the exception that escaped, and the remote calls issued
Left(result_, requests_) == Outcome(result_, requests_, None, -1)

\* ------------------------------------------------------------------------
\* gmail_list_messages
\* ------------------------------------------------------------------------
\* the string appended to message_list for msg, given what
\* messages().get(..., format='metadata') answered
MetadataEntry(msg, got) ==
    IF got.raised THEN
        <<73, 68, 58, 32>> \o msg.id \o <<10, 69, 114, 114, 111, 114, 58, 32, 67, 111, 117, 108,
              100, 32, 110, 111, 116, 32, 102, 101, 116, 99, 104, 32, 100, 101, 116, 97, 105, 108,
              115, 32, 45, 32>> \o got.value.text \o <<10>>
    ELSE
        LET headers == Get(Get(got.value, "payload", EmptyDict), "headers", <<>>)
            subject == HeaderValue(headers, 1, <<83, 117, 98, 106, 101, 99, 116>>, <<78, 111, 32,
                  83, 117, 98, 106, 101, 99, 116>>)
            from_addr == HeaderValue(headers, 1, <<70, 114, 111, 109>>, <<85, 110, 107, 110, 111,
                  119, 110, 32, 83, 101, 110, 100, 101, 114>>)
            to_addr == HeaderValue(headers, 1, <<84, 111>>, <<85, 110, 107, 110, 111, 119, 110, 32,
                  82, 101, 99, 105, 112, 105, 101, 110, 116>>)
            date == HeaderValue(headers, 1, <<68, 97, 116, 101>>, <<85, 110, 107, 110, 111, 119,
                  110, 32, 68, 97, 116, 101>>)
        IN
        <<73, 68, 58, 32>> \o msg.id \o <<10, 83, 117, 98, 106, 101, 99, 116, 58,
              32>> \o subject \o <<10, 70, 114, 111, 109, 58, 32>>
        \o SenderClean(from_addr) \o <<10, 84, 111, 58, 32>> \o to_addr \o <<10, 68, 97, 116, 101,
              58, 32>> \o date \o <<10>>

\* the messages().get calls of a loop over messages, one for each
GetRequests(messages, mailbox) ==
    [i \in 1..Len(messages) |->
        Request("users.messages.get", messages[i].id, ~mailbox[messages[i].id].raised)]

\* gmail_list_messages(max_results, query): the outcomes the invocation may
\* have, given the handle, what messages().list may answer and what
\* messages().get answers for each id. The handler catches HttpError only.
gmail_list_messages(max_results, query, gmail_service, answers, mailbox) ==
    IF gmail_service = None THEN {Left(Raise(NoneHasNo(<<117, 115, 101, 114, 115>>)), <<>>)}
    ELSE UNION {
        LET issued == <<Request("users.messages.list", max_results, ~a.raised)>> IN
        IF a.raised THEN
            {IF a.value.type = "HttpError"
             THEN Left(Return(<<71, 109, 97, 105, 108, 32, 65, 80, 73, 32, 69, 114, 114, 111, 114,
                   58, 32>> \o a.value.text), issued)
             ELSE Left(Raise(a.value), issued)}
        ELSE
            LET messages == Get(a.value, "messages", <<>>) IN
            IF messages = <<>> THEN {Left(Return(<<78, 111, 32, 109, 101, 115, 115, 97, 103, 101,
                  115, 32, 102, 111, 117, 110, 100, 46>>), issued)}
            ELSE {Left(Return(<<10>> \o [i \in 1..50 |-> 61]
                              \o Join(<<10>>,
                                      [i \in 1..Len(messages) |->
                                          MetadataEntry(messages[i], mailbox[messages[i].id])],
                                      1)),
                       issued \o GetRequests(messages, mailbox))} :
        a \in answers}

\* ------------------------------------------------------------------------
\* gmail_search_and_summarize
\* ------------------------------------------------------------------------
\* s.replace(a, b) for single characters
ReplaceChar(s, a, b) == [i \in 1..Len(s) |-> IF s[i] = a THEN b ELSE s[i]]

\* s[:n]
Prefix(s, n) == SubSeq(s, 1, IF Len(s) < n THEN Len(s) ELSE n)

\* body[:200].replace('\n', ' ').strip() + "..." if len(body) > 200 else body
BodyPreview(body) ==
    IF Len(body) > 200 THEN Strip(ReplaceChar(Prefix(body, 200), 10, 32)) \o <<46, 46, 46>>
    ELSE body

\* " ".join(search_parts) if search_parts else "in:inbox"
SummarizeQuery(query, sender, recipient, subject_contains) ==
    LET search_parts ==
            (IF Truthy(sender) THEN <<<<102, 114, 111, 109, 58,
                  40>> \o sender \o <<41>>>> ELSE <<>>)
            \o (IF Truthy(recipient) THEN <<<<116, 111, 58,
                  40>> \o recipient \o <<41>>>> ELSE <<>>)
            \o (IF Truthy(subject_contains)
                THEN <<<<115, 117, 98, 106, 101, 99, 116, 58,
                      40>> \o subject_contains \o <<41>>>> ELSE <<>>)
            \o (IF Truthy(query) THEN <<<<40>> \o query \o <<41>>>> ELSE <<>>)
    IN IF search_parts # <<>> THEN Join(<<32>>, search_parts, 1) ELSE <<105, 110, 58, 105, 110, 98,
          111, 120>>

\* what the loop adds to response for the i-th message, given what
\* messages().get(..., format='full') answered
SummaryEntry(i, msg, got) ==
    LET failed(text) ==
            IntToStr(i) \o <<46, 32, 69, 114, 114, 111, 114, 32, 112, 114, 111, 99, 101, 115, 115,
                  105, 110, 103, 32, 101, 109, 97, 105, 108, 32>> \o msg.id \o <<58, 32>> \o text
            \o <<10, 10>>
    IN
    IF got.raised THEN failed(got.value.text)
    ELSE IF "payload" \notin DOMAIN got.value THEN failed(<<39, 112, 97, 121, 108, 111, 97, 100,
          39>>)
    ELSE
        LET headers == Get(got.value["payload"], "headers", <<>>)
            subject == HeaderValue(headers, 1, <<83, 117, 98, 106, 101, 99, 116>>, <<78, 111, 32,
                  83, 117, 98, 106, 101, 99, 116>>)
            sender == HeaderValue(headers, 1, <<70, 114, 111, 109>>, <<85, 110, 107, 110, 111, 119,
                  110>>)
            date == HeaderValue(headers, 1, <<68, 97, 116, 101>>, <<85, 110, 107, 110, 111, 119,
                  110>>)
        IN
        IntToStr(i) \o <<46, 32>> \o subject \o <<10>>
        \o <<32, 32, 32, 70, 114, 111, 109, 58, 32>> \o SenderClean(sender) \o <<10>>
        \o <<32, 32, 32, 68, 97, 116, 101, 58, 32>> \o date \o <<10>>
        \o <<32, 32, 32, 80, 114, 101, 118, 105, 101, 119, 58,
              32>> \o BodyPreview(extract_email_body(got.value["payload"])) \o <<10>>
        \o <<32, 32, 32, 73, 68, 58, 32>> \o msg.id \o <<10, 10>>

\* gmail_search_and_summarize(query, sender, recipient, subject_contains,
\* max_results): the outcomes the invocation may have
gmail_search_and_summarize(query, sender, recipient, subject_contains, max_results, gmail_service, answers, mailbox) ==
    LET gmail_query == SummarizeQuery(query, sender, recipient, subject_contains)
        failed(text, issued) == Left(Return(<<83, 101, 97, 114, 99, 104, 32, 101, 114, 114, 111,
              114, 58, 32>> \o text), issued)
    IN
    IF gmail_service = None THEN {failed(NoneHasNo(<<117, 115, 101, 114, 115>>).text, <<>>)}
    ELSE UNION {
        LET issued == <<Request("users.messages.list", max_results, ~a.raised)>> IN
        IF a.raised THEN {failed(a.value.text, issued)}
        ELSE
            LET messages == Get(a.value, "messages", <<>>) IN
            IF messages = <<>>
            THEN {Left(Return(<<78, 111, 32, 101, 109, 97, 105, 108, 115, 32, 102, 111, 117, 110,
                  100, 32, 102, 111, 114, 32, 113, 117, 101, 114, 121, 58, 32>> \o gmail_query),
                  issued)}
            ELSE {Left(Return(<<83, 69, 65, 82, 67, 72, 32, 82, 69, 83, 85, 76, 84, 83, 32,
                  40>> \o IntToStr(Len(messages)) \o <<32, 101, 109, 97, 105, 108, 115, 41, 58,
                  10>>
                              \o <<81, 117, 101, 114, 121, 58, 32>> \o gmail_query \o <<10, 10>>
                              \o Join(<<>>,
                                      [i \in 1..Len(messages) |->
                                          SummaryEntry(i, messages[i], mailbox[messages[i].id])],
                                      1)),
                       issued \o GetRequests(messages, mailbox))} :
        a \in answers}

\* ------------------------------------------------------------------------
\* calendar_list_events
\* ------------------------------------------------------------------------
\* str() of a value that is a str or None
StrOf(x) == IF x = None THEN <<78, 111, 110, 101>> ELSE x

\* event_info for one event; event['summary'] raises KeyError for an event
\* without a title
EventInfo(event) ==
    IF "start" \notin DOMAIN event THEN Raise(Exception("KeyError", <<39, 115, 116, 97, 114, 116,
          39>>))
    ELSE IF "summary" \notin DOMAIN event THEN Raise(Exception("KeyError", <<39, 115, 117, 109,
          109, 97, 114, 121, 39>>))
    ELSE
        LET start == Get(event["start"], "dateTime", Get(event["start"], "date", None))
            location == Get(event, "location", <<78, 111, 32, 108, 111, 99, 97, 116, 105, 111,
                  110>>)
            description == Get(event, "description", <<78, 111, 32, 100, 101, 115, 99, 114, 105,
                  112, 116, 105, 111, 110>>)
            event_id == Get(event, "id", <<78, 111, 32, 73, 68>>)
        IN
        Return(<<73, 68, 58, 32>> \o event_id \o <<10, 84, 105, 116, 108, 101, 58,
              32>> \o event["summary"]
               \o <<10, 84, 105, 109, 101, 58, 32>> \o StrOf(start) \o <<10, 76, 111, 99, 97, 116,
                     105, 111, 110, 58, 32>> \o location
               \o <<10, 68, 101, 115, 99, 114, 105, 112, 116, 105, 111, 110, 58,
                     32>> \o Prefix(description, 100)
               \o (IF Len(description) > 100 THEN <<46, 46, 46>> ELSE <<>>))

\* calendar_list_events(timeMin, timeMax, maxResults): the outcomes the
\* invocation may have
calendar_list_events(timeMin, timeMax, maxResults, calendar_service, answers) ==
    LET failed(text, issued) == Left(Return(<<69, 114, 114, 111, 114, 32, 108, 105, 115, 116, 105,
          110, 103, 32, 101, 118, 101, 110, 116, 115, 58, 32>> \o text), issued) IN
    IF calendar_service = None THEN {failed(NoneHasNo(<<101, 118, 101, 110, 116, 115>>).text,
          <<>>)}
    ELSE UNION {
        LET issued == <<Request("events.list", maxResults, ~a.raised)>> IN
        IF a.raised THEN {failed(a.value.text, issued)}
        ELSE
            LET events == Get(a.value, "items", <<>>)
                infos == [i \in 1..Len(events) |-> EventInfo(events[i])]
                bad == {i \in 1..Len(events) : infos[i].raised}
            IN
            IF events = <<>> THEN {Left(Return(<<78, 111, 32, 117, 112, 99, 111, 109, 105, 110,
                  103, 32, 101, 118, 101, 110, 116, 115, 32, 102, 111, 117, 110, 100, 46>>),
                  issued)}
            ELSE IF bad # {}
            THEN {failed(infos[CHOOSE i \in bad : \A k \in bad : i <= k].value.text, issued)}
            ELSE {Left(Return(<<70, 111, 117, 110, 100, 32>> \o IntToStr(Len(events)) \o <<32, 101,
                  118, 101, 110, 116, 115, 58, 10, 10>>
                              \o Join(<<10, 10, 45, 45, 45, 10, 10>>,
                                      [i \in 1..Len(events) |-> infos[i].value], 1)),
                       issued)} :
        a \in answers}

\* ------------------------------------------------------------------------
\* drive_list_all_files
\* ------------------------------------------------------------------------
FolderMime == <<97, 112, 112, 108, 105, 99, 97, 116, 105, 111, 110, 47, 118, 110, 100, 46, 103,
      111, 111, 103, 108, 101, 45, 97, 112, 112, 115, 46, 102, 111, 108, 100, 101, 114>>

\* get_file_type_emoji(mime_type): the exact matches, then the keys that
\* end with '/' in the order of the dict, then the default
get_file_type_emoji(mime_type) ==
    IF mime_type = FolderMime THEN <<128193>>
    ELSE IF mime_type = <<97, 112, 112, 108, 105, 99, 97, 116, 105, 111, 110, 47, 118, 110, 100,
          46, 103, 111, 111, 103, 108, 101, 45, 97, 112, 112, 115, 46, 100, 111, 99, 117, 109, 101,
          110, 116>> THEN <<128221>>
    ELSE IF mime_type = <<97, 112, 112, 108, 105, 99, 97, 116, 105, 111, 110, 47, 118, 110, 100,
          46, 103, 111, 111, 103, 108, 101, 45, 97, 112, 112, 115, 46, 115, 112, 114, 101, 97, 100,
          115, 104, 101, 101, 116>> THEN <<128202>>
    ELSE IF mime_type = <<97, 112, 112, 108, 105, 99, 97, 116, 105, 111, 110, 47, 118, 110, 100,
          46, 103, 111, 111, 103, 108, 101, 45, 97, 112, 112, 115, 46, 112, 114, 101, 115, 101,
          110, 116, 97, 116, 105, 111, 110>> THEN <<128253, 65039>>
    ELSE IF mime_type = <<97, 112, 112, 108, 105, 99, 97, 116, 105, 111, 110, 47, 118, 110, 100,
          46, 103, 111, 111, 103, 108, 101, 45, 97, 112, 112, 115, 46, 100, 114, 97, 119, 105, 110,
          103>> THEN <<127912>>
    ELSE IF mime_type = <<97, 112, 112, 108, 105, 99, 97, 116, 105, 111, 110, 47, 112, 100,
          102>> THEN <<128196>>
    ELSE IF mime_type = <<105, 109, 97, 103, 101, 47>> THEN <<128444, 65039>>
    ELSE IF mime_type = <<118, 105, 100, 101, 111, 47>> THEN <<127909>>
    ELSE IF mime_type = <<97, 117, 100, 105, 111, 47>> THEN <<127925>>
    ELSE IF mime_type = <<116, 101, 120, 116, 47>> THEN <<128196>>
    ELSE IF mime_type = <<97, 112, 112, 108, 105, 99, 97, 116, 105, 111, 110, 47, 122, 105,
          112>> THEN <<128230>>
    ELSE IF mime_type = <<97, 112, 112, 108, 105, 99, 97, 116, 105, 111, 110, 47, 106, 115, 111,
          110>> THEN <<128295>>
    ELSE IF StartsWith(mime_type, <<105, 109, 97, 103, 101, 47>>) THEN <<128444, 65039>>
    ELSE IF StartsWith(mime_type, <<118, 105, 100, 101, 111, 47>>) THEN <<127909>>
    ELSE IF StartsWith(mime_type, <<97, 117, 100, 105, 111, 47>>) THEN <<127925>>
    ELSE IF StartsWith(mime_type, <<116, 101, 120, 116, 47>>) THEN <<128196>>
    ELSE <<128196>>

\* the keys of file_type_queries, in the order of the dict
FileTypes ==
    <<<<102, 111, 108, 100, 101, 114>>, <<100, 111, 99, 117, 109, 101, 110, 116>>, <<115, 112, 114,
          101, 97, 100, 115, 104, 101, 101, 116>>, <<112, 114, 101, 115, 101, 110, 116, 97, 116,
          105, 111, 110>>, <<112, 100, 102>>, <<105, 109, 97, 103, 101>>,
      <<118, 105, 100, 101, 111>>, <<97, 117, 100, 105, 111>>, <<116, 101, 120, 116>>>>

\* str.isdigit() on ASCII text
IsDigits(s) == s # <<>> /\ \A i \in 1..Len(s) : IsDigit(s[i])

\* " [SHARED]" if item.get('shared', False) else ""
SharedStatus(item) == IF Get(item, "shared", FALSE) THEN <<32, 91, 83, 72, 65, 82, 69, 68,
      93>> ELSE <<>>

\* the line of one folder
FolderLine(folder) ==
    <<32, 32, 128193, 32>> \o folder.name \o <<32, 40, 73, 68, 58, 32>> \o folder.id \o <<41, 32,
          45, 32, 77, 111, 100, 105, 102, 105, 101, 100, 58, 32>>
    \o Prefix(Get(folder, "modifiedTime", <<85, 110, 107, 110, 111, 119, 110>>),
          10) \o SharedStatus(folder) \o <<10>>

\* the line of one file
FileLine(file) ==
    <<32, 32>> \o get_file_type_emoji(file.mimeType) \o <<32>> \o file.name
    \o <<32, 40, 73, 68, 58, 32>> \o file.id \o <<41>>
    \o (IF Truthy(Get(file, "size", None))
        THEN <<32, 45, 32>> \o format_file_size(Get(file, "size", <<78, 47, 65>>)) ELSE <<>>)
    \o <<32, 45, 32, 77, 111, 100, 105, 102, 105, 101, 100, 58, 32>> \o Prefix(Get(file,
          "modifiedTime", <<85, 110, 107, 110, 111, 119, 110>>), 10)
    \o SharedStatus(file) \o <<10>>

IsFolder(item) == item.mimeType = FolderMime

IsNoFolder(item) == item.mimeType # FolderMime

\* item.get('size') and item['size'].isdigit()
HasDigitSize(item) == Truthy(Get(item, "size", None)) /\ IsDigits(item.size)

RECURSIVE TotalSize(_, _)
\* total_size after the loop over the items with a size of digits
TotalSize(sized, i) ==
    IF i > Len(sized) THEN 0 ELSE ParseInt(sized[i].size).value + TotalSize(sized, i + 1)

\* the response built for a listing that is not empty
DriveListing(items, file_type, order_by) ==
    LET folders == SelectSeq(items, IsFolder)
        files == SelectSeq(items, IsNoFolder)
        sized == SelectSeq(items, HasDigitSize)
    IN
    <<65, 108, 108, 32, 70, 105, 108, 101, 115, 32, 105, 110, 32, 71, 111, 111, 103, 108, 101, 32,
          68, 114, 105, 118, 101>>
    \o (IF Truthy(file_type) THEN <<32, 40, 102, 105, 108, 116, 101, 114, 101, 100, 32, 98, 121,
          58, 32>> \o file_type \o <<41>> ELSE <<>>)
    \o <<58, 10>>
    \o <<83, 104, 111, 119, 105, 110, 103, 32>> \o IntToStr(Len(items)) \o <<32, 105, 116, 101,
          109, 115, 32, 40, 111, 114, 100, 101, 114, 101, 100, 32, 98, 121,
          32>> \o order_by \o <<41, 58, 10, 10>>
    \o (IF folders # <<>>
        THEN <<128193, 32, 70, 79, 76, 68, 69, 82, 83, 32, 40>> \o IntToStr(Len(folders)) \o <<41,
              58, 10>>
             \o Join(<<>>, [i \in 1..Len(folders) |-> FolderLine(folders[i])], 1) \o <<10>>
        ELSE <<>>)
    \o (IF files # <<>>
        THEN <<128196, 32, 70, 73, 76, 69, 83, 32, 40>> \o IntToStr(Len(files)) \o <<41, 58, 10>>
             \o Join(<<>>, [i \in 1..Len(files) |-> FileLine(files[i])], 1)
        ELSE <<>>)
    \o <<10, 128202, 32, 83, 85, 77, 77, 65, 82, 89, 58, 10>>
    \o <<32, 32, 84, 111, 116, 97, 108, 32, 105, 116, 101, 109, 115, 58,
          32>> \o IntToStr(Len(items)) \o <<10>>
    \o <<32, 32, 70, 111, 108, 100, 101, 114, 115, 58, 32>> \o IntToStr(Len(folders)) \o <<10>>
    \o <<32, 32, 70, 105, 108, 101, 115, 58, 32>> \o IntToStr(Len(files)) \o <<10>>
    \o (IF sized # <<>>
        THEN <<32, 32, 84, 111, 116, 97, 108, 32, 115, 105, 122, 101, 32, 40, 102, 105, 108, 101,
              115, 32, 119, 105, 116, 104, 32, 115, 105, 122, 101, 32, 105, 110, 102, 111, 41, 58,
              32>>
             \o format_file_size(IntToStr(TotalSize(sized, 1))) \o <<10>>
        ELSE <<>>)

\* min(max_results, 1000)
PageSize(max_results) == IF max_results < 1000 THEN max_results ELSE 1000

\* drive_list_all_files(max_results, file_type, order_by): the outcomes the
\* invocation may have
drive_list_all_files(max_results, file_type, order_by, drive_service, answers) ==
    LET failed(text, issued) == Left(Return(<<69, 114, 114, 111, 114, 32, 108, 105, 115, 116, 105,
          110, 103, 32, 97, 108, 108, 32, 102, 105, 108, 101, 115, 58, 32>> \o text), issued) IN
    IF Truthy(file_type) /\ \A i \in 1..Len(FileTypes) : FileTypes[i] # Lower(file_type)
    THEN {Left(Return(<<85, 110, 115, 117, 112, 112, 111, 114, 116, 101, 100, 32, 102, 105, 108,
          101, 32, 116, 121, 112, 101, 32, 102, 105, 108, 116, 101, 114, 58, 32>> \o file_type
                      \o <<46, 32, 83, 117, 112, 112, 111, 114, 116, 101, 100, 32, 116, 121, 112,
                            101, 115, 58, 32>> \o Join(<<44, 32>>, FileTypes, 1)),
               <<>>)}
    ELSE IF drive_service = None THEN {failed(NoneHasNo(<<102, 105, 108, 101, 115>>).text, <<>>)}
    ELSE UNION {
        LET issued == <<Request("files.list", PageSize(max_results), ~a.raised)>> IN
        IF a.raised THEN {failed(a.value.text, issued)}
        ELSE
            LET items == Get(a.value, "files", <<>>) IN
            IF items = <<>>
            THEN {Left(Return(<<78, 111, 32, 102, 105, 108, 101, 115, 32, 102, 111, 117, 110,
                  100>>
                              \o (IF Truthy(file_type)
                                  THEN <<32, 109, 97, 116, 99, 104, 105, 110, 103, 32, 102, 105,
                                        108, 116, 101, 114, 32, 39>> \o file_type \o <<39>>
                                  ELSE <<>>)
                              \o <<46>>),
                       issued)}
            ELSE {Left(Return(DriveListing(items, file_type, order_by)), issued)} :
        a \in answers}

\* ------------------------------------------------------------------------
\* gmail_find_messages_with_attachments
\* ------------------------------------------------------------------------
\* ATTACHMENT_MIME_TYPES as the sequence of its (extension, MIME type) pairs,
\* in the order of the dict: 'pdf' -> 'application/pdf', 'doc' ->
\* 'application/msword', ..., 'gsite' -> 'application/vnd.google-apps.site'
ATTACHMENT_MIME_TYPES ==
    <<
      <<<<112, 100, 102>>,
        <<97, 112, 112, 108, 105, 99, 97, 116, 105, 111, 110, 47, 112, 100, 102>>>>,
      <<<<100, 111, 99>>,
        <<97, 112, 112, 108, 105, 99, 97, 116, 105, 111, 110, 47, 109, 115, 119, 111, 114, 100>>>>,
      <<<<100, 111, 99, 120>>,
        <<97, 112, 112, 108, 105, 99, 97, 116, 105, 111, 110, 47, 118, 110, 100, 46, 111, 112, 101, 110, 120, 109, 108, 102, 111, 114, 109, 97, 116, 115, 45, 111, 102, 102, 105, 99, 101, 100, 111, 99, 117, 109, 101, 110, 116, 46, 119, 111, 114, 100, 112, 114, 111, 99, 101, 115, 115, 105, 110, 103, 109, 108, 46, 100, 111, 99, 117, 109, 101, 110, 116>>>>,
      <<<<114, 116, 102>>,
        <<97, 112, 112, 108, 105, 99, 97, 116, 105, 111, 110, 47, 114, 116, 102>>>>,
      <<<<111, 100, 116>>,
        <<97, 112, 112, 108, 105, 99, 97, 116, 105, 111, 110, 47, 118, 110, 100, 46, 111, 97, 115, 105, 115, 46, 111, 112, 101, 110, 100, 111, 99, 117, 109, 101, 110, 116, 46, 116, 101, 120, 116>>>>,
      <<<<120, 108, 115>>,
        <<97, 112, 112, 108, 105, 99, 97, 116, 105, 111, 110, 47, 118, 110, 100, 46, 109, 115, 45, 101, 120, 99, 101, 108>>>>,
      <<<<120, 108, 115, 120>>,
        <<97, 112, 112, 108, 105, 99, 97, 116, 105, 111, 110, 47, 118, 110, 100, 46, 111, 112, 101, 110, 120, 109, 108, 102, 111, 114, 109, 97, 116, 115, 45, 111, 102, 102, 105, 99, 101, 100, 111, 99, 117, 109, 101, 110, 116, 46, 115, 112, 114, 101, 97, 100, 115, 104, 101, 101, 116, 109, 108, 46, 115, 104, 101, 101, 116>>>>,
      <<<<111, 100, 115>>,
        <<97, 112, 112, 108, 105, 99, 97, 116, 105, 111, 110, 47, 118, 110, 100, 46, 111, 97, 115, 105, 115, 46, 111, 112, 101, 110, 100, 111, 99, 117, 109, 101, 110, 116, 46, 115, 112, 114, 101, 97, 100, 115, 104, 101, 101, 116>>>>,
      <<<<99, 115, 118>>,
        <<116, 101, 120, 116, 47, 99, 115, 118>>>>,
      <<<<112, 112, 116>>,
        <<97, 112, 112, 108, 105, 99, 97, 116, 105, 111, 110, 47, 118, 110, 100, 46, 109, 115, 45, 112, 111, 119, 101, 114, 112, 111, 105, 110, 116>>>>,
      <<<<112, 112, 116, 120>>,
        <<97, 112, 112, 108, 105, 99, 97, 116, 105, 111, 110, 47, 118, 110, 100, 46, 111, 112, 101, 110, 120, 109, 108, 102, 111, 114, 109, 97, 116, 115, 45, 111, 102, 102, 105, 99, 101, 100, 111, 99, 117, 109, 101, 110, 116, 46, 112, 114, 101, 115, 101, 110, 116, 97, 116, 105, 111, 110, 109, 108, 46, 112, 114, 101, 115, 101, 110, 116, 97, 116, 105, 111, 110>>>>,
      <<<<111, 100, 112>>,
        <<97, 112, 112, 108, 105, 99, 97, 116, 105, 111, 110, 47, 118, 110, 100, 46, 111, 97, 115, 105, 115, 46, 111, 112, 101, 110, 100, 111, 99, 117, 109, 101, 110, 116, 46, 112, 114, 101, 115, 101, 110, 116, 97, 116, 105, 111, 110>>>>,
      <<<<116, 120, 116>>,
        <<116, 101, 120, 116, 47, 112, 108, 97, 105, 110>>>>,
      <<<<109, 100>>,
        <<116, 101, 120, 116, 47, 109, 97, 114, 107, 100, 111, 119, 110>>>>,
      <<<<106, 115, 111, 110>>,
        <<97, 112, 112, 108, 105, 99, 97, 116, 105, 111, 110, 47, 106, 115, 111, 110>>>>,
      <<<<120, 109, 108>>,
        <<97, 112, 112, 108, 105, 99, 97, 116, 105, 111, 110, 47, 120, 109, 108>>>>,
      <<<<104, 116, 109, 108>>,
        <<116, 101, 120, 116, 47, 104, 116, 109, 108>>>>,
      <<<<99, 115, 115>>,
        <<116, 101, 120, 116, 47, 99, 115, 115>>>>,
      <<<<106, 115>>,
        <<116, 101, 120, 116, 47, 106, 97, 118, 97, 115, 99, 114, 105, 112, 116>>>>,
      <<<<106, 112, 103>>,
        <<105, 109, 97, 103, 101, 47, 106, 112, 101, 103>>>>,
      <<<<106, 112, 101, 103>>,
        <<105, 109, 97, 103, 101, 47, 106, 112, 101, 103>>>>,
      <<<<112, 110, 103>>,
        <<105, 109, 97, 103, 101, 47, 112, 110, 103>>>>,
      <<<<103, 105, 102>>,
        <<105, 109, 97, 103, 101, 47, 103, 105, 102>>>>,
      <<<<98, 109, 112>>,
        <<105, 109, 97, 103, 101, 47, 98, 109, 112>>>>,
      <<<<116, 105, 102, 102>>,
        <<105, 109, 97, 103, 101, 47, 116, 105, 102, 102>>>>,
      <<<<116, 105, 102>>,
        <<105, 109, 97, 103, 101, 47, 116, 105, 102, 102>>>>,
      <<<<115, 118, 103>>,
        <<105, 109, 97, 103, 101, 47, 115, 118, 103, 43, 120, 109, 108>>>>,
      <<<<119, 101, 98, 112>>,
        <<105, 109, 97, 103, 101, 47, 119, 101, 98, 112>>>>,
      <<<<122, 105, 112>>,
        <<97, 112, 112, 108, 105, 99, 97, 116, 105, 111, 110, 47, 122, 105, 112>>>>,
      <<<<114, 97, 114>>,
        <<97, 112, 112, 108, 105, 99, 97, 116, 105, 111, 110, 47, 120, 45, 114, 97, 114, 45, 99, 111, 109, 112, 114, 101, 115, 115, 101, 100>>>>,
      <<<<55, 122>>,
        <<97, 112, 112, 108, 105, 99, 97, 116, 105, 111, 110, 47, 120, 45, 55, 122, 45, 99, 111, 109, 112, 114, 101, 115, 115, 101, 100>>>>,
      <<<<116, 97, 114>>,
        <<97, 112, 112, 108, 105, 99, 97, 116, 105, 111, 110, 47, 120, 45, 116, 97, 114>>>>,
      <<<<103, 122>>,
        <<97, 112, 112, 108, 105, 99, 97, 116, 105, 111, 110, 47, 103, 122, 105, 112>>>>,
      <<<<109, 112, 51>>,
        <<97, 117, 100, 105, 111, 47, 109, 112, 101, 103>>>>,
      <<<<119, 97, 118>>,
        <<97, 117, 100, 105, 111, 47, 119, 97, 118>>>>,
      <<<<102, 108, 97, 99>>,
        <<97, 117, 100, 105, 111, 47, 102, 108, 97, 99>>>>,
      <<<<97, 97, 99>>,
        <<97, 117, 100, 105, 111, 47, 97, 97, 99>>>>,
      <<<<111, 103, 103>>,
        <<97, 117, 100, 105, 111, 47, 111, 103, 103>>>>,
      <<<<109, 112, 52>>,
        <<118, 105, 100, 101, 111, 47, 109, 112, 52>>>>,
      <<<<97, 118, 105>>,
        <<118, 105, 100, 101, 111, 47, 120, 45, 109, 115, 118, 105, 100, 101, 111>>>>,
      <<<<109, 111, 118>>,
        <<118, 105, 100, 101, 111, 47, 113, 117, 105, 99, 107, 116, 105, 109, 101>>>>,
      <<<<119, 109, 118>>,
        <<118, 105, 100, 101, 111, 47, 120, 45, 109, 115, 45, 119, 109, 118>>>>,
      <<<<102, 108, 118>>,
        <<118, 105, 100, 101, 111, 47, 120, 45, 102, 108, 118>>>>,
      <<<<109, 107, 118>>,
        <<118, 105, 100, 101, 111, 47, 120, 45, 109, 97, 116, 114, 111, 115, 107, 97>>>>,
      <<<<103, 100, 111, 99>>,
        <<97, 112, 112, 108, 105, 99, 97, 116, 105, 111, 110, 47, 118, 110, 100, 46, 103, 111, 111, 103, 108, 101, 45, 97, 112, 112, 115, 46, 100, 111, 99, 117, 109, 101, 110, 116>>>>,
      <<<<103, 115, 104, 101, 101, 116>>,
        <<97, 112, 112, 108, 105, 99, 97, 116, 105, 111, 110, 47, 118, 110, 100, 46, 103, 111, 111, 103, 108, 101, 45, 97, 112, 112, 115, 46, 115, 112, 114, 101, 97, 100, 115, 104, 101, 101, 116>>>>,
      <<<<103, 115, 108, 105, 100, 101, 115>>,
        <<97, 112, 112, 108, 105, 99, 97, 116, 105, 111, 110, 47, 118, 110, 100, 46, 103, 111, 111, 103, 108, 101, 45, 97, 112, 112, 115, 46, 112, 114, 101, 115, 101, 110, 116, 97, 116, 105, 111, 110>>>>,
      <<<<103, 100, 114, 97, 119>>,
        <<97, 112, 112, 108, 105, 99, 97, 116, 105, 111, 110, 47, 118, 110, 100, 46, 103, 111, 111, 103, 108, 101, 45, 97, 112, 112, 115, 46, 100, 114, 97, 119, 105, 110, 103>>>>,
      <<<<103, 102, 111, 114, 109>>,
        <<97, 112, 112, 108, 105, 99, 97, 116, 105, 111, 110, 47, 118, 110, 100, 46, 103, 111, 111, 103, 108, 101, 45, 97, 112, 112, 115, 46, 102, 111, 114, 109>>>>,
      <<<<103, 115, 105, 116, 101>>,
        <<97, 112, 112, 108, 105, 99, 97, 116, 105, 111, 110, 47, 118, 110, 100, 46, 103, 111, 111, 103, 108, 101, 45, 97, 112, 112, 115, 46, 115, 105, 116, 101>>>>
    >>

\* position of ext in ATTACHMENT_MIME_TYPES, 0 when it is no key
ExtensionIndex(ext) ==
    IF \E i \in 1..Len(ATTACHMENT_MIME_TYPES) : ATTACHMENT_MIME_TYPES[i][1] = ext
    THEN CHOOSE i \in 1..Len(ATTACHMENT_MIME_TYPES) : ATTACHMENT_MIME_TYPES[i][1] = ext
    ELSE 0

\* x and x.strip()
NotBlank(x) == Truthy(x) /\ Strip(x) # <<>>

\* the validation with attachment_type looked at before mime_type
FilterOfTypeFirst(attachment_type, mime_type) ==
    IF NotBlank(attachment_type) THEN
        LET i == ExtensionIndex(Lower(Strip(attachment_type))) IN
        IF i # 0 THEN [ok |-> TRUE, filter_mime_type |-> ATTACHMENT_MIME_TYPES[i][2]]
        ELSE [ok |-> FALSE, filter_mime_type |-> None]
    ELSE IF NotBlank(mime_type) THEN [ok |-> TRUE, filter_mime_type |-> Strip(mime_type)]
    ELSE [ok |-> TRUE, filter_mime_type |-> None]

\* the validation of mime_type and attachment_type: the filter, or the
\* attachment_type that is refused
FilterOf(attachment_type, mime_type) ==
    IF NotBlank(mime_type) THEN [ok |-> TRUE, filter_mime_type |-> Strip(mime_type)]
    ELSE IF NotBlank(attachment_type) THEN
        LET i == ExtensionIndex(Lower(Strip(attachment_type))) IN
        IF i # 0 THEN [ok |-> TRUE, filter_mime_type |-> ATTACHMENT_MIME_TYPES[i][2]]
        ELSE [ok |-> FALSE, filter_mime_type |-> None]
    ELSE [ok |-> TRUE, filter_mime_type |-> None]

\* ' '.join(search_parts)
FindQuery(query, sender, subject_contains, date_after, date_before) ==
    Join(<<32>>,
         <<<<104, 97, 115, 58, 97, 116, 116, 97, 99, 104, 109, 101, 110, 116>>>>
         \o (IF NotBlank(query) THEN <<Strip(query)>> ELSE <<>>)
         \o (IF NotBlank(sender) THEN <<<<102, 114, 111, 109, 58,
               40>> \o Strip(sender) \o <<41>>>> ELSE <<>>)
         \o (IF NotBlank(subject_contains)
             THEN <<<<115, 117, 98, 106, 101, 99, 116, 58,
                   40>> \o Strip(subject_contains) \o <<41>>>> ELSE <<>>)
         \o (IF NotBlank(date_after) THEN <<<<97, 102, 116, 101, 114,
               58>> \o Strip(date_after)>> ELSE <<>>)
         \o (IF NotBlank(date_before) THEN <<<<98, 101, 102, 111, 114, 101,
               58>> \o Strip(date_before)>> ELSE <<>>),
         1)

RECURSIVE HeadersDictGet(_, _, _, _)
\* headers_dict.get(name, default): the last header of that name counts
HeadersDictGet(headers, i, name, default) ==
    IF i = 0 THEN default
    ELSE IF headers[i].name = name THEN headers[i].value
    ELSE HeadersDictGet(headers, i - 1, name, default)

\* s.split(c)[1] when c is in s
AfterFirst(s, c) ==
    BeforeFirst(SubSeq(s, Len(BeforeFirst(s, c)) + 2, Len(s)), c)

\* sender_name of a From field
SenderName(from_field) ==
    IF HasChar(from_field, 60) /\ HasChar(from_field, 62) THEN
        LET name_part == StripQuotes(Strip(BeforeFirst(from_field, 60)))
            email_part == BeforeFirst(AfterFirst(from_field, 60), 62)
        IN IF name_part # <<>> THEN name_part ELSE email_part
    ELSE from_field

RECURSIVE SumSizeBytes(_, _)
\* sum(att.get('size_bytes', 0) for att in found_attachments)
SumSizeBytes(found_attachments, i) ==
    IF i > Len(found_attachments) THEN 0
    ELSE Get(found_attachments[i], "size_bytes", 0) + SumSizeBytes(found_attachments, i + 1)

\* message_data of a message with attachments
MessageData(msg_ref, full_message, found_attachments) ==
    LET headers == Get(Get(full_message, "payload", EmptyDict), "headers", <<>>)
        from_field == HeadersDictGet(headers, Len(headers), <<70, 114, 111, 109>>, <<85, 110, 107,
              110, 111, 119, 110, 32, 83, 101, 110, 100, 101, 114>>)
    IN
    [message_id |-> msg_ref.id,
     subject |-> HeadersDictGet(headers, Len(headers), <<83, 117, 98, 106, 101, 99, 116>>, <<78,
           111, 32, 83, 117, 98, 106, 101, 99, 116>>),
     from |-> SenderName(from_field),
     from_full |-> from_field,
     to |-> HeadersDictGet(headers, Len(headers), <<84, 111>>, <<>>),
     date |-> HeadersDictGet(headers, Len(headers), <<68, 97, 116, 101>>, <<>>),
     snippet |-> Get(full_message, "snippet", <<>>),
     attachments |-> found_attachments,
     attachment_count |-> Len(found_attachments),
     total_size_bytes |-> SumSizeBytes(found_attachments, 1)]

RECURSIVE FindLoop(_, _, _, _, _, _, _)
RECURSIVE FindLoopNoBreak(_, _, _, _, _, _, _)
RECURSIVE FindLoopStopAtFailure(_, _, _, _, _, _, _)

\* the loop without the test of len(valid_messages): every listed message
\* is fetched
FindLoopNoBreak(message_list, i, valid_messages, issued, max_results, filter_mime_type, mailbox) ==
    IF i > Len(message_list)
    THEN [valid_messages |-> valid_messages, requests |-> issued]
    ELSE
        LET msg_ref == message_list[i]
            got == mailbox[msg_ref.id]
            asked == Append(issued, Request("users.messages.get", msg_ref.id, ~got.raised))
            found == IF got.raised THEN <<>>
                     ELSE extract_attachments_recursive(Get(got.value, "payload", EmptyDict),
                                                        filter_mime_type, <<>>)
        IN
        FindLoopNoBreak(message_list, i + 1,
                        IF found = <<>> THEN valid_messages
                        ELSE Append(valid_messages, MessageData(msg_ref, got.value, found)),
                        asked, max_results, filter_mime_type, mailbox)

\* the loop with the try around it instead of inside it: the first message
\* that raises ends the loop
FindLoopStopAtFailure(message_list, i, valid_messages, issued, max_results, filter_mime_type, mailbox) ==
    IF i > Len(message_list) \/ Len(valid_messages) >= max_results
    THEN [valid_messages |-> valid_messages, requests |-> issued]
    ELSE
        LET msg_ref == message_list[i]
            got == mailbox[msg_ref.id]
            asked == Append(issued, Request("users.messages.get", msg_ref.id, ~got.raised))
            found == IF got.raised THEN <<>>
                     ELSE extract_attachments_recursive(Get(got.value, "payload", EmptyDict),
                                                        filter_mime_type, <<>>)
        IN
        IF got.raised THEN [valid_messages |-> valid_messages, requests |-> asked]
        ELSE FindLoopStopAtFailure(message_list, i + 1,
                 IF found = <<>> THEN valid_messages
                 ELSE Append(valid_messages, MessageData(msg_ref, got.value, found)),
                 asked, max_results, filter_mime_type, mailbox)


\* the loop over message_list from its i-th element on: it stops at
\* max_results valid messages, skips a message whose processing raises and
\* a message without a matching attachment
FindLoop(message_list, i, valid_messages, issued, max_results, filter_mime_type, mailbox) ==
    IF i > Len(message_list) \/ Len(valid_messages) >= max_results
    THEN [valid_messages |-> valid_messages, requests |-> issued]
    ELSE
        LET msg_ref == message_list[i]
            got == mailbox[msg_ref.id]
            asked == Append(issued, Request("users.messages.get", msg_ref.id, ~got.raised))
            found == IF got.raised THEN <<>>
                     ELSE extract_attachments_recursive(Get(got.value, "payload", EmptyDict),
                                                        filter_mime_type, <<>>)
        IN
        FindLoop(message_list, i + 1,
                 IF found = <<>> THEN valid_messages
                 ELSE Append(valid_messages, MessageData(msg_ref, got.value, found)),
                 asked, max_results, filter_mime_type, mailbox)

\* the list call asks for max_results messages
FindPageSizeExact(max_results) == max_results

\* maxResults=max_results * 5
FindPageSize(max_results) == max_results * 5

\* gmail_find_messages_with_attachments(max_results, query, sender,
\* subject_contains, date_after, date_before, attachment_type, mime_type):
\* the outcomes the invocation may have; answers gives what messages().list
\* may answer to a request of so many results. The JSON text returned is
\* given as the object json.dumps is applied to.
gmail_find_messages_with_attachments(max_results, query, sender, subject_contains, date_after, date_before, attachment_type, mime_type, gmail_service, answers, mailbox) ==
    LET filter == FilterOf(attachment_type, mime_type)
        search_query == FindQuery(query, sender, subject_contains, date_after, date_before)
        failed(e, issued) ==
            Left(Return(IF e.type = "HttpError"
                        THEN [status |-> "error",
                              error |-> <<71, 109, 97, 105, 108, 32, 65, 80, 73, 32, 101, 114, 114,
                                    111, 114, 58, 32>> \o e.text,
                              error_code |-> Get(e, "status", <<117, 110, 107, 110, 111, 119,
                                    110>>)]
                        ELSE [status |-> "error",
                              error |-> <<85, 110, 101, 120, 112, 101, 99, 116, 101, 100, 32, 101,
                                    114, 114, 111, 114, 58, 32>> \o e.text,
                              error_type |-> e.type]),
                 issued)
    IN
    IF ~filter.ok
    THEN {Left(Return([status |-> "error",
                       error |-> <<85, 110, 115, 117, 112, 112, 111, 114, 116, 101, 100, 32, 97,
                             116, 116, 97, 99, 104, 109, 101, 110, 116, 32, 116, 121, 112, 101, 58,
                             32>> \o attachment_type,
                       supported_types |->
                           [i \in 1..Len(ATTACHMENT_MIME_TYPES) |->
                               ATTACHMENT_MIME_TYPES[i][1]]]),
               <<>>)}
    ELSE IF gmail_service = None THEN {failed(NoneHasNo(<<117, 115, 101, 114, 115>>), <<>>)}
    ELSE UNION {
        LET asked == Request("users.messages.list", FindPageSize(max_results), ~a.raised)
        IN
        IF a.raised THEN {failed(a.value, <<asked>>)}
        ELSE
            LET message_list == Get(a.value, "messages", <<>>)
                issued == <<asked @@ ("answered" :> message_list)>>
                done == FindLoop(message_list, 1, <<>>, issued, max_results,
                                 filter.filter_mime_type, mailbox)
            IN
            IF message_list = <<>>
            THEN {Left(Return([status |-> "success", count |-> 0,
                               search_query |-> search_query, messages |-> <<>>]),
                       issued)}
            ELSE {Left(Return([status |-> "success",
                               count |-> Len(done.valid_messages),
                               search_query |-> search_query,
                               messages |-> done.valid_messages]),
                       done.requests)} :
        a \in answers}

\* ------------------------------------------------------------------------
\* drive_share_file, drive_get_shareable_link, drive_create
\* ------------------------------------------------------------------------
\* what files().get(fields='webViewLink,name') answers for the file
FileMetadata == [name |-> <<68, 111, 99>>, webViewLink |-> <<104, 116, 116, 112, 115, 58, 47, 47,
      100, 47, 102, 49>>]

\* drive_share_file(fileId, email, role, send_notification): what the
\* invocation leaves when the remote call failing raises ("none": no call
\* raises)
drive_share_file(fileId, email, role, send_notification, drive_service, failing) ==
    LET failed(text, issued) ==
            Left(Return(<<69, 114, 114, 111, 114, 32, 115, 104, 97, 114, 105, 110, 103, 32, 102,
                  105, 108, 101, 32>> \o fileId \o <<58, 32>> \o text), issued)
        granted(ok) == Request("permissions.create", fileId, ok)
        got(ok) == Request("files.get", fileId, ok)
    IN
    IF drive_service = None THEN failed(NoneHasNo(<<112, 101, 114, 109, 105, 115, 115, 105, 111,
          110, 115>>).text, <<>>)
    ELSE IF failing = "permissions.create" THEN failed(ServerError.text, <<granted(FALSE)>>)
    ELSE IF failing = "files.get" THEN failed(ServerError.text, <<granted(TRUE), got(FALSE)>>)
    ELSE Left(Return(<<70, 105, 108, 101, 32, 39>> \o FileMetadata.name \o <<39, 32, 115, 104, 97,
          114, 101, 100, 32, 119, 105, 116, 104, 32>> \o email
                     \o <<32, 97, 115, 32>> \o role \o <<46, 10, 83, 104, 97, 114, 101, 97, 98,
                           108, 101, 32, 108, 105, 110, 107, 58,
                           32>> \o FileMetadata.webViewLink),
              <<granted(TRUE), got(TRUE)>>)

\* drive_get_shareable_link(fileId, make_public)
drive_get_shareable_link(fileId, make_public, drive_service, failing) ==
    LET failed(text, issued) ==
            Left(Return(<<69, 114, 114, 111, 114, 32, 103, 101, 116, 116, 105, 110, 103, 32, 115,
                  104, 97, 114, 101, 97, 98, 108, 101, 32, 108, 105, 110, 107, 32, 102, 111, 114,
                  32>> \o fileId \o <<58, 32>> \o text),
                 issued)
        granted(ok) == Request("permissions.create", fileId, ok)
        got(ok) == Request("files.get", fileId, ok)
        before == IF make_public THEN <<granted(TRUE)>> ELSE <<>>
    IN
    IF drive_service = None
    THEN failed(NoneHasNo(IF make_public THEN <<112, 101, 114, 109, 105, 115, 115, 105, 111, 110,
          115>> ELSE <<102, 105, 108, 101, 115>>).text, <<>>)
    ELSE IF make_public /\ failing = "permissions.create"
    THEN failed(ServerError.text, <<granted(FALSE)>>)
    ELSE IF failing = "files.get" THEN failed(ServerError.text, Append(before, got(FALSE)))
    ELSE Left(Return(<<70, 105, 108, 101, 58, 32>> \o FileMetadata.name \o <<10>>
                     \o <<86, 105, 101, 119, 32, 108, 105, 110, 107, 58,
                           32>> \o FileMetadata.webViewLink \o <<10>>
                     \o (IF "webContentLink" \in DOMAIN FileMetadata
                         THEN <<68, 111, 119, 110, 108, 111, 97, 100, 32, 108, 105, 110, 107, 58,
                               32>> \o FileMetadata["webContentLink"]
                         ELSE <<>>)),
              Append(before, got(TRUE)))

\* 'application/vnd.google-apps.document'
GoogleDocument == GoogleAppsPrefix \o <<46, 100, 111, 99, 117, 109, 101, 110, 116>>

\* the id files().create answers with
CreatedId == <<102, 49>>

\* drive_create(name, mimeType, content, folder_id) for a Google Docs type
\* and for a text/ type, whose media body is content.encode('utf-8')
drive_create(name, mimeType, content, folder_id, drive_service, docs_service, failing) ==
    LET failed(text, issued) ==
            Left(Return(<<10060, 32, 69, 114, 114, 111, 114, 32, 99, 114, 101, 97, 116, 105, 110,
                  103, 32, 102, 105, 108, 101, 58, 32>> \o text), issued)
        created(ok) == Request("files.create", name, ok)
        updated(ok) == Request("documents.batchUpdate", CreatedId, ok)
        got(ok) == Request("files.get", CreatedId, ok)
    IN
    IF drive_service = None THEN failed(NoneHasNo(<<102, 105, 108, 101, 115>>).text, <<>>)
    ELSE IF failing = "files.create" THEN failed(ServerError.text, <<created(FALSE)>>)
    ELSE IF mimeType = GoogleDocument THEN
        IF docs_service = None
        THEN failed(NoneHasNo(<<100, 111, 99, 117, 109, 101, 110, 116, 115>>).text,
              <<created(TRUE)>>)
        ELSE IF failing = "documents.batchUpdate"
        THEN failed(ServerError.text, <<created(TRUE), updated(FALSE)>>)
        ELSE IF failing = "files.get"
        THEN failed(ServerError.text, <<created(TRUE), updated(TRUE), got(FALSE)>>)
        ELSE Left(Return(<<9989, 32, 71, 111, 111, 103, 108, 101, 32, 68, 111, 99, 117, 109, 101,
              110, 116, 32, 99, 114, 101, 97, 116, 101, 100, 32, 115, 117, 99, 99, 101, 115, 115,
              102, 117, 108, 108, 121, 33, 10, 10, 128196, 32, 42, 42>> \o name
                         \o <<42, 42, 10, 127380, 32, 68, 111, 99, 117, 109, 101, 110, 116, 32, 73,
                               68, 58, 32>> \o CreatedId
                         \o <<10, 128279, 32, 76, 105, 110, 107, 58,
                               32>> \o FileMetadata.webViewLink),
                  <<created(TRUE), updated(TRUE), got(TRUE)>>)
    ELSE Left(Return(<<9989, 32, 70, 105, 108, 101, 32, 99, 114, 101, 97, 116, 101, 100, 32, 115,
          117, 99, 99, 101, 115, 115, 102, 117, 108, 108, 121, 33, 10, 10, 128196, 32, 42,
          42>> \o name
                     \o <<42, 42, 10, 127380, 32, 73, 68, 58, 32>> \o CreatedId
                     \o <<10, 128203, 32, 77, 73, 77, 69, 32, 116, 121, 112, 101, 58,
                           32>> \o mimeType
                     \o <<10, 128279, 32, 76, 105, 110, 107, 58,
                           32>> \o FileMetadata.webViewLink),
              <<created(TRUE)>>)

\* ------------------------------------------------------------------------
\* gmail_send_message
\* ------------------------------------------------------------------------
\* 'Error: Gmail service not initialized. Please re-authenticate.'
GmailNotInitialized == <<69, 114, 114, 111, 114, 58, 32, 71, 109, 97, 105, 108, 32, 115, 101, 114,
      118, 105, 99, 101, 32, 110, 111, 116, 32, 105, 110, 105, 116, 105, 97, 108, 105, 122, 101,
      100, 46, 32, 80, 108, 101, 97, 115, 101, 32, 114, 101, 45, 97, 117, 116, 104, 101, 110, 116,
      105, 99, 97, 116, 101, 46>>

\* 'Error: Gmail authentication failed. Please re-authenticate. Details: '
GmailAuthenticationFailed ==
    <<69, 114, 114, 111, 114, 58, 32, 71, 109, 97, 105, 108, 32, 97, 117, 116, 104, 101, 110, 116,
          105, 99, 97, 116, 105, 111, 110, 32, 102, 97, 105, 108, 101, 100, 46, 32, 80, 108, 101,
          97, 115, 101, 32, 114, 101, 45, 97, 117, 116, 104, 101, 110, 116, 105, 99, 97, 116, 101,
          46, 32, 68, 101, 116, 97, 105, 108, 115, 58, 32>>

\* gmail_send_message that sends whatever the profile check says
gmail_send_messageUnchecked(to, subject, body, gmail_service, profile, failing) ==
    LET asked == Request("users.getProfile", <<109, 101>>, ~profile.raised)
        sent(ok) == Request("users.messages.send", to, ok)
    IN
    IF gmail_service = None THEN Left(Return(GmailNotInitialized), <<>>)
    ELSE IF failing = "users.messages.send"
    THEN Left(Return(<<69, 114, 114, 111, 114, 32, 115, 101, 110, 100, 105, 110, 103, 32, 101, 109,
          97, 105, 108, 58, 32>> \o ServerError.text), <<asked, sent(FALSE)>>)
    ELSE Left(Return(<<69, 109, 97, 105, 108, 32, 115, 101, 110, 116, 32, 115, 117, 99, 99, 101,
          115, 115, 102, 117, 108, 108, 121, 33, 10, 77, 101, 115, 115, 97, 103, 101, 32, 73, 68,
          58, 32>> \o <<115, 49>> \o <<10, 84, 111, 58, 32>> \o to
                     \o <<10, 83, 117, 98, 106, 101, 99, 116, 58, 32>> \o subject),
              <<asked, sent(TRUE)>>)

\* gmail_send_message(to, subject, body): profile is what getProfile
\* answers; the message sent gets the id 's1'
gmail_send_message(to, subject, body, gmail_service, profile, failing) ==
    LET asked == Request("users.getProfile", <<109, 101>>, ~profile.raised)
        sent(ok) == Request("users.messages.send", to, ok)
    IN
    IF gmail_service = None THEN Left(Return(GmailNotInitialized), <<>>)
    ELSE IF profile.raised
    THEN Left(Return(GmailAuthenticationFailed \o profile.value.text), <<asked>>)
    ELSE IF "emailAddress" \notin DOMAIN profile.value
    THEN Left(Return(GmailAuthenticationFailed \o <<39, 101, 109, 97, 105, 108, 65, 100, 100, 114,
          101, 115, 115, 39>>), <<asked>>)
    ELSE IF failing = "users.messages.send"
    THEN Left(Return(<<69, 114, 114, 111, 114, 32, 115, 101, 110, 100, 105, 110, 103, 32, 101, 109,
          97, 105, 108, 58, 32>> \o ServerError.text), <<asked, sent(FALSE)>>)
    ELSE Left(Return(<<69, 109, 97, 105, 108, 32, 115, 101, 110, 116, 32, 115, 117, 99, 99, 101,
          115, 115, 102, 117, 108, 108, 121, 33, 10, 77, 101, 115, 115, 97, 103, 101, 32, 73, 68,
          58, 32>> \o <<115, 49>> \o <<10, 84, 111, 58, 32>> \o to
                     \o <<10, 83, 117, 98, 106, 101, 99, 116, 58, 32>> \o subject),
              <<asked, sent(TRUE)>>)

\* ------------------------------------------------------------------------
\* load_credentials and initialize_services
\* ------------------------------------------------------------------------
\* the Credentials object load_credentials builds, as the tuple of its
\* token, refresh_token, client_id and client_secret and of what its
\* property expired says
Creds(env, expired) ==
    <<env.GOOGLE_ACCESS_TOKEN, env.GOOGLE_REFRESH_TOKEN,
      env.GOOGLE_CLIENT_ID, env.GOOGLE_CLIENT_SECRET, expired>>

\* the four variables that must be set
RequiredVariables ==
    {"GOOGLE_ACCESS_TOKEN", "GOOGLE_REFRESH_TOKEN", "GOOGLE_CLIENT_ID", "GOOGLE_CLIENT_SECRET"}

\* what load_credentials leaves: what it returned and the token requests
\* it issued
Loaded(creds, requests_) == [result |-> Return(creds), requests |-> requests_]

\* load_credentials with the credentials returned as they are when the
\* refresh fails
load_credentialsKeepingExpired(env, past, refreshed) ==
    IF \E k \in RequiredVariables : ~Truthy(env[k]) THEN Loaded(None, <<>>)
    ELSE IF Truthy(env.GOOGLE_TOKEN_EXPIRES_AT) /\ ~ParseInt(env.GOOGLE_TOKEN_EXPIRES_AT).ok
    THEN Loaded(None, <<>>)
    ELSE IF Truthy(env.GOOGLE_TOKEN_EXPIRES_AT) /\ past
    THEN LET refresh == Request("oauth2.token", env.GOOGLE_REFRESH_TOKEN, refreshed) IN
         IF refreshed
         THEN Loaded([Creds(env, FALSE) EXCEPT ![1] = <<110, 101, 119>>], <<refresh>>)
         ELSE Loaded(Creds(env, TRUE), <<refresh>>)
    ELSE Loaded(Creds(env, FALSE), <<>>)

\* load_credentials(): Credentials or None, and the token requests issued.
\* env holds the environment variables, each a string or None; past is
\* whether the expiry GOOGLE_TOKEN_EXPIRES_AT gives is reached, so that
\* creds.expired is true exactly when an expiry was set and past holds;
\* refreshed is whether creds.refresh() came back without an exception,
\* and then the token is the new one, 'new', and is not expired. int() of
\* an expiry that is no number raises inside the try.
load_credentials(env, past, refreshed) ==
    IF \E k \in RequiredVariables : ~Truthy(env[k]) THEN Loaded(None, <<>>)
    ELSE IF Truthy(env.GOOGLE_TOKEN_EXPIRES_AT) /\ ~ParseInt(env.GOOGLE_TOKEN_EXPIRES_AT).ok
    THEN Loaded(None, <<>>)
    ELSE IF Truthy(env.GOOGLE_TOKEN_EXPIRES_AT) /\ past
    THEN LET refresh == Request("oauth2.token", env.GOOGLE_REFRESH_TOKEN, refreshed) IN
         IF refreshed
         THEN Loaded([Creds(env, FALSE) EXCEPT ![1] = <<110, 101, 119>>], <<refresh>>)
         ELSE Loaded(None, <<refresh>>)
    ELSE Loaded(Creds(env, FALSE), <<>>)

\* the steps of initialize_services that may raise, in order
InitSteps ==
    <<"build drive", "build gmail", "getProfile", "build calendar", "calendarList", "build docs">>

\* position of a step
StepIndex(step) == CHOOSE i \in 1..Len(InitSteps) : InitSteps[i] = step

\* initialize_services(): the handles and the remote calls issued, given
\* the handles before, the credentials and the step that raises ("none"
\* when none does). A handle is assigned when its build() returns.
initialize_services(handles, creds, failing) ==
    IF ~Truthy(creds) THEN [services |-> handles, requests |-> <<>>]
    ELSE
        LET reached(step) == failing = "none" \/ StepIndex(failing) > StepIndex(step)
            attempted(step) == failing = "none" \/ StepIndex(failing) >= StepIndex(step)
        IN
        [services |->
            [drive_service |->
                IF reached("build drive") THEN DriveResource ELSE handles.drive_service,
             gmail_service |->
                IF reached("build gmail") THEN GmailResource ELSE handles.gmail_service,
             calendar_service |->
                IF reached("build calendar") THEN CalendarResource
                ELSE handles.calendar_service,
             docs_service |->
                IF reached("build docs") THEN DocsResource ELSE handles.docs_service],
         requests |->
            (IF attempted("getProfile")
             THEN <<Request("users.getProfile", <<109, 101>>, reached("getProfile"))>> ELSE <<>>)
            \o (IF attempted("calendarList")
                THEN <<Request("calendarList.list", <<>>, reached("calendarList"))>> ELSE <<>>)]

\* ------------------------------------------------------------------------
\* State: one call on one payload, and what the process keeps between calls
\* ------------------------------------------------------------------------
\* payload:        the payload tree of the fetched message
\* fn:             the function that has run, "none" before
\* arg:            the argument of that call (MIME type, filter, attachment
\*                 id, maximum-results value or text)
\* result:         what the call returned
\* services:       the module-level service handles
\* requests:       the remote calls the last tool invocation issued, in order
\* extracted_text: the text gmail_read_attchment_content extracted, None
\*                 when it extracted none
\* token_count:    the number of tokens it counted, -1 when it counted none
\* previous:       the result of the run before the last one on this payload
VARIABLES payload, fn, arg, result, services, requests, extracted_text, token_count, previous

vars == <<payload, fn, arg, result, services, requests, extracted_text, token_count, previous>>

\* what a tool handler owns besides fn, arg and result
tool_state == <<services, requests, extracted_text, token_count, previous>>

\* ------------------------------------------------------------------------
\* Payload trees given to the walkers
\* ------------------------------------------------------------------------
\* largest number of nodes of a payload tree
MaxNodes == 4

\* body.data values: 'SGVsbG8=' is "Hello", 'QQ==' is "A", 'SGVsbG8' lacks
\* its padding, '_w==' is the single byte FF, which is no UTF-8
B64Hello == <<83, 71, 86, 115, 98, 71, 56, 61>>

B64A == <<81, 81, 61, 61>>

B64BadPadding == <<83, 71, 86, 115, 98, 71, 56>>

B64ByteFF == <<95, 119, 61, 61>>

\* "<b>Hi</b>&nbsp;there" and "<br>", encoded
B64HtmlHiThere == <<80, 71, 73, 45, 83, 71, 107, 56, 76, 50, 73, 45, 74, 109, 53, 105, 99, 51, 65, 55, 100, 71, 104, 108, 99, 109, 85, 61>>

B64HtmlBr == <<80, 71, 74, 121, 80, 103, 61, 61>>

MultipartMixed == <<109, 117, 108, 116, 105, 112, 97, 114, 116, 47, 109, 105, 120, 101, 100>>

ApplicationPdf == <<97, 112, 112, 108, 105, 99, 97, 116, 105, 111, 110, 47, 112, 100, 102>>

PlainHello == [mimeType |-> TextPlain, body |-> [data |-> B64Hello]]

PlainA == [mimeType |-> TextPlain, body |-> [data |-> B64A]]

PlainNoData == [mimeType |-> TextPlain, body |-> [size |-> 0]]

PlainBadPadding == [mimeType |-> TextPlain, body |-> [data |-> B64BadPadding]]

PlainByteFF == [mimeType |-> TextPlain, body |-> [data |-> B64ByteFF]]

HtmlHiThere == [mimeType |-> TextHtml, body |-> [data |-> B64HtmlHiThere]]

HtmlBr == [mimeType |-> TextHtml, body |-> [data |-> B64HtmlBr]]

Multipart == [mimeType |-> MultipartMixed]

\* 'r.pdf' held by reference 'att1', 2048 bytes
PdfAttachment ==
    [mimeType |-> ApplicationPdf, filename |-> <<114, 46, 112, 100, 102>>,
     body |-> [attachmentId |-> <<97, 116, 116, 49>>, size |-> 2048]]

\* 'n.txt' held by reference 'att2', 1280 bytes
TxtAttachment ==
    [mimeType |-> TextPlain, filename |-> <<110, 46, 116, 120, 116>>,
     body |-> [attachmentId |-> <<97, 116, 116, 50>>, size |-> 1280]]

\* the same without a mimeType key
UntypedAttachment ==
    [filename |-> <<110, 46, 116, 120, 116>>, body |-> [attachmentId |-> <<97, 116, 116, 50>>, size |-> 1280]]

\* a filename and neither inline data nor an attachment id
NamedNoReference ==
    [mimeType |-> ApplicationPdf, filename |-> <<114, 46, 112, 100, 102>>, body |-> [size |-> 0]]

TextLabels == {PlainHello, PlainA, PlainNoData, PlainBadPadding, PlainByteFF, HtmlHiThere}

BodyLabels == {PlainHello, PlainA, PlainNoData, PlainByteFF, HtmlHiThere, Multipart}

MarkupLabels == {PlainHello, PlainNoData, PlainByteFF, HtmlHiThere, HtmlBr, Multipart}

AttachLabels == {PdfAttachment, TxtAttachment, UntypedAttachment, NamedNoReference,
                 PlainHello, Multipart}

\* a node with these keys and these parts; a node without parts has no
\* 'parts' key
MkNode(label, kids) == IF kids = <<>> THEN label ELSE label @@ ("parts" :> kids)

\* A shape is a tree without keys: the sequence of the shapes of its
\* children.
RECURSIVE ShapesOfSize(_)
RECURSIVE ShapeForestsOfSize(_)

\* the shapes of exactly n nodes
ShapesOfSize(n) == ShapeForestsOfSize(n - 1)

\* the sequences of shapes of m nodes in all
ShapeForestsOfSize(m) ==
    IF m = 0 THEN {<<>>}
    ELSE UNION {{<<t>> \o f : t \in ShapesOfSize(k), f \in ShapeForestsOfSize(m - k)} :
                k \in 1..m}

Shapes == UNION {ShapesOfSize(n) : n \in 1..MaxNodes}

RECURSIVE ShapeSize(_)
RECURSIVE ShapeForestSize(_, _)

ShapeSize(shape) == 1 + ShapeForestSize(shape, 1)

ShapeForestSize(shapes, i) ==
    IF i > Len(shapes) THEN 0 ELSE ShapeSize(shapes[i]) + ShapeForestSize(shapes, i + 1)

RECURSIVE BuildTree(_, _, _)
RECURSIVE BuildForest(_, _, _, _)

\* the tree of a shape whose k-th node in pre-order has the keys keysOf[k];
\* first is the pre-order number of the root
BuildTree(shape, keysOf, first) ==
    MkNode(keysOf[first], BuildForest(shape, 1, keysOf, first + 1))

BuildForest(shapes, i, keysOf, first) ==
    IF i > Len(shapes) THEN <<>>
    ELSE <<BuildTree(shapes[i], keysOf, first)>>
         \o BuildForest(shapes, i + 1, keysOf, first + ShapeSize(shapes[i]))

\* payload is a tree of at most MaxNodes nodes with keys drawn from labels
IsTreeOver(labels) ==
    \E shape \in Shapes :
        \E keysOf \in [1..ShapeSize(shape) -> labels] :
            payload = BuildTree(shape, keysOf, 1)

\* ------------------------------------------------------------------------
\* Messages given to gmail_read_attchment_content
\* ------------------------------------------------------------------------
\* largest number of nodes of the payload tree of such a message
MaxReadNodes == 3

ImagePng == <<105, 109, 97, 103, 101, 47, 112, 110, 103>>

\* 'application/vnd.openxmlformats-officedocument.wordprocessingml.document'
DocxMime ==
    <<97, 112, 112, 108, 105, 99, 97, 116, 105, 111, 110, 47, 118, 110, 100, 46, 111, 112, 101,
      110, 120, 109, 108, 102, 111, 114, 109, 97, 116, 115, 45, 111, 102, 102, 105, 99, 101, 100,
      111, 99, 117, 109, 101, 110, 116, 46, 119, 111, 114, 100, 112, 114, 111, 99, 101, 115, 115,
      105, 110, 103, 109, 108, 46, 100, 111, 99, 117, 109, 101, 110, 116>>

\* 'image.png' held by reference 'att3'
PngAttachment ==
    [mimeType |-> ImagePng, filename |-> <<105, 109, 97, 103, 101, 46, 112, 110, 103>>,
     body |-> [attachmentId |-> <<97, 116, 116, 51>>, size |-> 4096]]

\* 'D.DOCX' held by reference 'att4'
DocxAttachment ==
    [mimeType |-> DocxMime, filename |-> <<68, 46, 68, 79, 67, 88>>,
     body |-> [attachmentId |-> <<97, 116, 116, 52>>, size |-> 3072]]

ReadLabels == {Multipart, PdfAttachment, TxtAttachment, DocxAttachment, PngAttachment}

\* payload is a tree of at most n nodes with keys drawn from labels
IsTreeOfAtMost(labels, n) ==
    \E shape \in UNION {ShapesOfSize(k) : k \in 1..n} :
        \E keysOf \in [1..ShapeSize(shape) -> labels] :
            payload = BuildTree(shape, keysOf, 1)

\* the message_id of the call, 'm1'
MessageId == <<109, 49>>

\* the attachment_id of the call: absent, 'att3' (the image) or 'att9' (in
\* no message)
AttachmentIds == {None, <<97, 116, 116, 51>>, <<97, 116, 116, 57>>}

\* tiktoken.get_encoding("cl100k_base") gives the encoding or raises
Encodings == {Return(<<99, 108, 49, 48, 48, 107, 95, 98, 97, 115, 101>>), Raise(UnknownEncoding)}

\* attachments().get(...).execute() raises or gives data: 'IEEK' is
\* " A\n", 'Cg==' is "\n", 'SGVsbG8' lacks its padding
Downloads ==
    {Raise(HttpErrorText), Return([data |-> <<73, 69, 69, 75>>]),
     Return([data |-> <<67, 103, 61, 61>>]), Return([data |-> B64BadPadding])}

\* PdfReader(file_stream) raises or gives pages, each with text or None;
\* Document(file_stream) raises or gives paragraphs
Reads ==
    [pdf |-> {Raise(EofMarkerNotFound), Return(<<None>>), Return(<<None, <<32, 65, 10>> >>)},
     docx |-> {Raise(FileIsNotAZipFile), Return(<<>>), Return(<< <<65>> >>)}]

\* len(encoding.encode(extracted_text)) for the document the short text
\* stands for
TokenCounts == {3001, 30000, 30001}

\* ------------------------------------------------------------------------
\* The mailbox, calendar and drive the tools talk to
\* ------------------------------------------------------------------------
\* largest maximum-results value a caller passes, 1001 apart
MaxResults == 2

\* largest number of items a remote list call answers with
MaxListed == 2

\* the maximum-results values of the calls; 1001 is above the 1000 of
\* drive_list_all_files
Limits == (0..MaxResults) \cup {1001}

\* the sequences over S of at most n elements
SeqsUpTo(S, n) == UNION {[1..k -> S] : k \in 0..n}

\* 'm1': a report with r.pdf attached, from "Ann" <a@x.io>
Mail1 ==
    [id |-> <<109, 49>>, snippet |-> <<72, 101, 108, 108, 111>>,
     payload |->
        MkNode(Multipart, <<PlainHello, PdfAttachment>>)
        @@ ("headers" :> <<[name |-> <<70, 114, 111, 109>>, value |-> <<34, 65, 110, 110, 34, 32,
              60, 97, 64, 120, 46, 105, 111, 62>>],
                           [name |-> <<83, 117, 98, 106, 101, 99, 116>>, value |-> <<82, 101, 112,
                                 111, 114, 116>>]>>)]

\* 'm3': a plain message without attachment and without headers
Mail3 == [id |-> <<109, 51>>, snippet |-> <<72, 101, 108, 108, 111>>, payload |-> PlainHello]

\* 'm4': a message with n.txt and r.pdf attached, without headers
Mail4 ==
    [id |-> <<109, 52>>, snippet |-> <<72, 101, 108, 108, 111>>,
     payload |-> MkNode(Multipart, <<PlainHello, TxtAttachment, PdfAttachment>>)]

\* what messages().get answers for each id: 'm2' is refused
Mailbox ==
    (<<109, 49>> :> Return(Mail1)) @@ (<<109, 50>> :> Raise(ServerError))
    @@ (<<109, 51>> :> Return(Mail3)) @@ (<<109, 52>> :> Return(Mail4))

\* a listing names no message twice
IsInjective(refs) == \A i, j \in 1..Len(refs) : refs[i] = refs[j] => i = j

\* what messages().list may answer when asked for so many results: an
\* error, or at most that many message references
MessageListAnswers(requested) ==
    {Raise(ServerError), Raise(TimedOut)}
    \cup {Return(IF refs = <<>> THEN [resultSizeEstimate |-> 0]
                 ELSE [messages |-> refs, resultSizeEstimate |-> Len(refs)]) :
          refs \in {r \in SeqsUpTo({[id |-> m] : m \in DOMAIN Mailbox},
                                   IF requested < MaxListed THEN requested ELSE MaxListed) :
                       IsInjective(r)}}

\* a titled event with a time, and an all-day event without title
Event1 ==
    [id |-> <<101, 49>>, summary |-> <<83, 121, 110, 99>>, start |-> [dateTime |-> <<50, 48, 50,
          52, 45, 48, 49, 45, 48, 50, 84, 49, 48, 58, 48, 48, 58, 48, 48, 90>>],
     location |-> <<82, 111, 111, 109, 32, 49>>]

EventUntitled == [id |-> <<101, 50>>, start |-> [date |-> <<50, 48, 50, 52, 45, 48, 49, 45, 48,
      51>>]]

\* what events().list may answer when asked for so many results
EventListAnswers(requested) ==
    {Raise(ServerError), Raise(TimedOut)}
    \cup {Return(IF events = <<>> THEN [kind |-> <<99, 97, 108, 101, 110, 100, 97, 114, 35, 101,
          118, 101, 110, 116, 115>>]
                 ELSE [kind |-> <<99, 97, 108, 101, 110, 100, 97, 114, 35, 101, 118, 101, 110, 116,
                       115>>, items |-> events]) :
          events \in SeqsUpTo({Event1, EventUntitled},
                              IF requested < MaxListed THEN requested ELSE MaxListed)}

\* a shared folder and a PDF file of 2048 bytes
Folder1 ==
    [id |-> <<102, 49>>, name |-> <<68, 111, 99, 115>>, mimeType |-> FolderMime,
     modifiedTime |-> <<50, 48, 50, 52, 45, 48, 49, 45, 48, 50, 84, 49, 48, 58, 48, 48, 58, 48, 48,
           46, 48, 48, 48, 90>>, shared |-> TRUE]

File1 ==
    [id |-> <<102, 50>>, name |-> <<114, 46, 112, 100, 102>>, mimeType |-> ApplicationPdf,
          size |-> <<50, 48, 52, 56>>,
     modifiedTime |-> <<50, 48, 50, 52, 45, 48, 49, 45, 48, 51, 84, 49, 48, 58, 48, 48, 58, 48, 48,
           46, 48, 48, 48, 90>>]

\* what files().list may answer when asked for a page of so many files
FileListAnswers(requested) ==
    {Raise(ServerError), Raise(TimedOut)}
    \cup {Return([files |-> files]) :
          files \in SeqsUpTo({Folder1, File1},
                             IF requested < MaxListed THEN requested ELSE MaxListed)}

\* the environment variables load_credentials reads: each token is set or
\* not, the access token may be set to '', the expiry is absent, a number
\* of milliseconds or no number
Environments ==
    [GOOGLE_ACCESS_TOKEN : {None, <<>>, <<97, 116>>}, GOOGLE_REFRESH_TOKEN : {None, <<114, 116>>},
     GOOGLE_CLIENT_ID : {None, <<105, 100>>}, GOOGLE_CLIENT_SECRET : {None, <<99, 115>>},
     GOOGLE_TOKEN_EXPIRES_AT : {None, <<49, 48, 48, 48>>, <<115, 111, 111, 110>>}]

\* the file_type values of the calls: none, 'PDF' and the unknown 'exe'
FileTypeArgs == {None, <<80, 68, 70>>, <<101, 120, 101>>}

\* the attachment_type values of the calls: none, 'pdf', ' TXT' and the
\* unknown 'exe'
AttachmentTypeArgs == {None, <<112, 100, 102>>, <<32, 84, 88, 84>>, <<101, 120, 101>>}

\* the mime_type values of the calls: none, blank and ' text/plain'
MimeTypeArgs == {None, <<32, 32>>, <<32>> \o TextPlain}

\* the MIME filters of a search: none, or 'application/pdf'
Filters == {None, ApplicationPdf}

\* the number of pieces an html_content is put together from
MaxPieces == 3

\* pieces of html_content: '<b>Hi</b>', '&nbsp;', 'there', '<a', a line
\* feed, '>', a space and '&lt;'
HtmlPieces ==
    {<<60, 98, 62, 72, 105, 60, 47, 98, 62>>,
     <<38, 110, 98, 115, 112, 59>>, <<116, 104, 101, 114, 101>>, <<60, 97>>,
     <<10>>, <<62>>, <<32>>, <<38, 108, 116, 59>>}

RECURSIVE Concat(_, _)
\* the pieces from the i-th on, put together
Concat(pieces, i) ==
    IF i > Len(pieces) THEN <<>> ELSE pieces[i] \o Concat(pieces, i + 1)

\* the html_content values of the calls: None, '' and every text of at
\* most MaxPieces pieces
HtmlContents ==
    {None} \cup {Concat(pieces, 1) : pieces \in SeqsUpTo(HtmlPieces, MaxPieces)}

\* ------------------------------------------------------------------------
\* The calls
\* ------------------------------------------------------------------------
\* the payload has arrived and no walker has run yet
Fetched(labels) ==
    /\ IsTreeOver(labels)
    /\ fn = "none"
    /\ arg = None
    /\ result = None
    /\ services = Initialized
    /\ requests = <<>>
    /\ extracted_text = None
    /\ token_count = -1
    /\ previous = NoRun

InitText == Fetched(TextLabels)

InitBody == Fetched(BodyLabels)

InitMarkup == Fetched(MarkupLabels)

InitAttach == Fetched(AttachLabels)

CallExtractText ==
    /\ fn = "none"
    /\ \E mime_type \in {TextPlain, TextHtml} :
        /\ arg' = mime_type
        /\ result' = extract_text_from_payload(payload, mime_type)
    /\ fn' = "extract_text_from_payload"
    /\ UNCHANGED <<payload, tool_state>>

CallExtractEmailBody ==
    /\ fn = "none"
    /\ fn' = "extract_email_body"
    /\ result' = extract_email_body(payload)
    /\ UNCHANGED <<payload, arg, tool_state>>

CallGetAttachmentInfo ==
    /\ fn = "none"
    /\ fn' = "get_attachment_info"
    /\ result' = get_attachment_info(payload)
    /\ UNCHANGED <<payload, arg, tool_state>>

CallExtractAttachments ==
    /\ fn = "none"
    /\ \E filter_mime_type \in Filters :
        /\ arg' = filter_mime_type
        /\ result' = extract_attachments_recursive(payload, filter_mime_type, <<>>)
    /\ fn' = "extract_attachments_recursive"
    /\ UNCHANGED <<payload, tool_state>>

\* the walkers run a second time on the payload of their first run:
\* previous keeps what the first run returned
RerunExtractText ==
    /\ fn = "extract_text_from_payload"
    /\ ~previous.ran
    /\ previous' = [ran |-> TRUE, value |-> result]
    /\ result' = extract_text_from_payload(payload, arg)
    /\ UNCHANGED <<payload, fn, arg, services, requests, extracted_text, token_count>>

\* a second run that appends to the attachments list of the first run
RerunGetAttachmentInfoKeepingList ==
    /\ fn = "get_attachment_info"
    /\ ~previous.ran
    /\ previous' = [ran |-> TRUE, value |-> result]
    /\ result' = IF ~result.raised /\ "parts" \in DOMAIN payload
                 THEN process_parts(payload["parts"], 1, result.value)
                 ELSE result
    /\ UNCHANGED <<payload, fn, arg, services, requests, extracted_text, token_count>>

RerunGetAttachmentInfo ==
    /\ fn = "get_attachment_info"
    /\ ~previous.ran
    /\ previous' = [ran |-> TRUE, value |-> result]
    /\ result' = get_attachment_info(payload)
    /\ UNCHANGED <<payload, fn, arg, services, requests, extracted_text, token_count>>

\* an html_content is at hand and strip_html_tags has not run
InitStrip ==
    /\ payload = None
    /\ fn = "none"
    /\ arg \in HtmlContents
    /\ result = None
    /\ services = Initialized
    /\ requests = <<>>
    /\ extracted_text = None
    /\ token_count = -1
    /\ previous = NoRun

CallStripHtmlTags ==
    /\ fn = "none"
    /\ fn' = "strip_html_tags"
    /\ result' = strip_html_tags(arg)
    /\ UNCHANGED <<payload, arg, tool_state>>

\* the message is in the mailbox and no tool has run; the handles are set
\* or, when initialize_services found no credentials, still None
InitRead ==
    /\ IsTreeOfAtMost(ReadLabels, MaxReadNodes)
    /\ fn = "none"
    /\ arg = None
    /\ result = None
    /\ services \in {Initialized, Uninitialized}
    /\ requests = <<>>
    /\ extracted_text = None
    /\ token_count = -1
    /\ previous = NoRun

CallReadAttachment ==
    /\ fn = "none"
    /\ \E attachment_id \in AttachmentIds :
        /\ arg' = attachment_id
        /\ \E o \in gmail_read_attchment_content(
                        MessageId, attachment_id, services.gmail_service, Encodings,
                        {Raise(HttpErrorText), Return([id |-> MessageId, payload |-> payload])},
                        Downloads, Reads, TokenCounts) :
            /\ result' = o.result
            /\ requests' = o.requests
            /\ extracted_text' = o.extracted_text
            /\ token_count' = o.token_count
    /\ fn' = "gmail_read_attchment_content"
    /\ UNCHANGED <<payload, services, previous>>

\* the environment of the process is set and load_credentials has not run
InitCreds ==
    /\ payload = None
    /\ fn = "none"
    /\ arg \in [env : Environments, past : BOOLEAN, refreshed : BOOLEAN]
    /\ result = None
    /\ services = Uninitialized
    /\ requests = <<>>
    /\ extracted_text = None
    /\ token_count = -1
    /\ previous = NoRun

\* load_credentials() runs in the environment arg.env; arg.past and
\* arg.refreshed are what the clock and the token endpoint will say
CallLoadCredentials ==
    /\ fn = "none"
    /\ fn' = "load_credentials"
    /\ LET loaded == load_credentials(arg.env, arg.past, arg.refreshed) IN
        /\ result' = loaded.result
        /\ requests' = loaded.requests
    /\ UNCHANGED <<payload, arg, services, extracted_text, token_count, previous>>

\* the module is loaded: the handles are None and nothing has run
InitTools ==
    /\ payload = None
    /\ fn = "none"
    /\ arg = None
    /\ result = None
    /\ services = Uninitialized
    /\ requests = <<>>
    /\ extracted_text = None
    /\ token_count = -1
    /\ previous = NoRun

\* the main block calls initialize_services() once, before mcp.run()
Startup ==
    /\ fn = "none"
    /\ \E env \in Environments, past \in BOOLEAN, refreshed \in BOOLEAN,
          failing \in {"none"} \cup {InitSteps[i] : i \in 1..Len(InitSteps)} :
        LET loaded == load_credentials(env, past, refreshed)
            done == initialize_services(services, loaded.result.value, failing)
        IN /\ services' = done.services
           /\ requests' = loaded.requests \o done.requests
    /\ fn' = "initialize_services"
    /\ arg' = None
    /\ result' = Return(None)
    /\ UNCHANGED <<payload, extracted_text, token_count, previous>>

\* mcp.run() waits for the next request: the services are started and no
\* handler is running
AwaitingRequest == fn \in {"initialize_services", "responded"}

\* the value a handler returned, or the error for the exception that
\* escaped it, has gone to the client; the server waits again
Respond ==
    /\ fn \notin {"none", "initialize_services", "responded"}
    /\ fn' = "responded"
    /\ arg' = None
    /\ result' = None
    /\ requests' = <<>>
    /\ UNCHANGED <<payload, services, extracted_text, token_count, previous>>

\* a tool invocation that drops the handles when an exception escapes it
LeavesClearingHandles(o) ==
    /\ result' = o.result
    /\ requests' = o.requests
    /\ services' = IF o.result.raised THEN Uninitialized ELSE services
    /\ UNCHANGED <<payload, extracted_text, token_count, previous>>

\* a tool invocation leaves o
Leaves(o) ==
    /\ result' = o.result
    /\ requests' = o.requests
    /\ UNCHANGED <<payload, services, extracted_text, token_count, previous>>

CallGmailListMessages ==
    /\ AwaitingRequest
    /\ fn' = "gmail_list_messages"
    /\ \E max_results \in Limits :
        /\ arg' = [max_results |-> max_results]
        /\ \E o \in gmail_list_messages(max_results, None, services.gmail_service,
                                        MessageListAnswers(max_results), Mailbox) :
            Leaves(o)

CallGmailSearchAndSummarize ==
    /\ AwaitingRequest
    /\ fn' = "gmail_search_and_summarize"
    /\ \E max_results \in Limits :
        /\ arg' = [max_results |-> max_results]
        /\ \E o \in gmail_search_and_summarize(None, None, None, None, max_results,
                                               services.gmail_service,
                                               MessageListAnswers(max_results), Mailbox) :
            Leaves(o)

CallGmailFindMessagesWithAttachments ==
    /\ AwaitingRequest
    /\ fn' = "gmail_find_messages_with_attachments"
    /\ \E max_results \in Limits, attachment_type \in AttachmentTypeArgs,
          mime_type \in MimeTypeArgs :
        /\ arg' = [max_results |-> max_results, attachment_type |-> attachment_type,
                   mime_type |-> mime_type]
        /\ \E o \in gmail_find_messages_with_attachments(
                        max_results, None, None, None, None, None, attachment_type, mime_type,
                        services.gmail_service,
                        MessageListAnswers(FindPageSize(max_results)), Mailbox) :
            Leaves(o)

CallCalendarListEvents ==
    /\ AwaitingRequest
    /\ fn' = "calendar_list_events"
    /\ \E max_results \in Limits :
        /\ arg' = [max_results |-> max_results]
        /\ \E o \in calendar_list_events(<<50, 48, 50, 52, 45, 48, 49, 45, 48, 49, 84, 48, 48, 58,
              48, 48, 58, 48, 48, 90>>, <<50, 48, 50, 52, 45, 48, 49, 45, 51, 49, 84, 50, 51, 58,
              53, 57, 58, 53, 57, 90>>,
                                         max_results, services.calendar_service,
                                         EventListAnswers(max_results)) :
            Leaves(o)

CallDriveListAllFiles ==
    /\ AwaitingRequest
    /\ fn' = "drive_list_all_files"
    /\ \E max_results \in Limits, file_type \in FileTypeArgs :
        /\ arg' = [max_results |-> max_results, file_type |-> file_type]
        /\ \E o \in drive_list_all_files(max_results, file_type, <<110, 97, 109, 101>>,
                                         services.drive_service,
                                         FileListAnswers(PageSize(max_results))) :
            Leaves(o)

\* the arguments of the calls that change the drive or send mail: the file
\* 'f1', the reader 'b@x.io', the document 'Doc' with the text 'Hi'
FileId == <<102, 49>>

EmailAddress == <<98, 64, 120, 46, 105, 111>>

\* what getProfile may answer: an error, the profile, a profile without
\* address
Profiles == {Raise(ServerError), Return([emailAddress |-> <<97, 64, 120, 46, 105, 111>>]),
      Return(EmptyDict)}

CallDriveShareFile ==
    /\ AwaitingRequest
    /\ fn' = "drive_share_file"
    /\ \E failing \in {"none", "permissions.create", "files.get"} :
        /\ arg' = [fileId |-> FileId, failing |-> failing]
        /\ Leaves(drive_share_file(FileId, EmailAddress, <<114, 101, 97, 100, 101, 114>>, TRUE,
                                   services.drive_service, failing))

CallDriveGetShareableLink ==
    /\ AwaitingRequest
    /\ fn' = "drive_get_shareable_link"
    /\ \E make_public \in BOOLEAN, failing \in {"none", "permissions.create", "files.get"} :
        /\ arg' = [fileId |-> FileId, make_public |-> make_public, failing |-> failing]
        /\ Leaves(drive_get_shareable_link(FileId, make_public, services.drive_service,
                                           failing))

CallDriveCreate ==
    /\ AwaitingRequest
    /\ fn' = "drive_create"
    /\ \E mimeType \in {GoogleDocument, TextPlain},
          failing \in {"none", "files.create", "documents.batchUpdate", "files.get"} :
        /\ arg' = [mimeType |-> mimeType, failing |-> failing]
        /\ Leaves(drive_create(<<68, 111, 99>>, mimeType, <<72, 105>>, None,
              services.drive_service,
                               services.docs_service, failing))

CallGmailSendMessage ==
    /\ AwaitingRequest
    /\ fn' = "gmail_send_message"
    /\ \E profile \in Profiles, failing \in {"none", "users.messages.send"} :
        /\ arg' = [to |-> EmailAddress, failing |-> failing]
        /\ Leaves(gmail_send_message(EmailAddress, <<72, 105>>, <<72, 101, 108, 108, 111>>,
              services.gmail_service,
                                     profile, failing))

NextText == CallExtractText

NextBody == CallExtractEmailBody

NextAttach == CallGetAttachmentInfo \/ CallExtractAttachments

NextRead == CallReadAttachment

NextRerun ==
    \/ CallExtractText
    \/ CallGetAttachmentInfo
    \/ RerunExtractText
    \/ RerunGetAttachmentInfo

NextStrip == CallStripHtmlTags

NextCreds == CallLoadCredentials

NextTools ==
    \/ Startup
    \/ CallGmailListMessages
    \/ CallGmailSearchAndSummarize
    \/ CallGmailFindMessagesWithAttachments
    \/ CallCalendarListEvents
    \/ CallDriveListAllFiles
    \/ CallDriveShareFile
    \/ CallDriveGetShareableLink
    \/ CallDriveCreate
    \/ CallGmailSendMessage
    \/ Respond

SpecText == InitText /\ [][NextText]_vars

SpecBody == InitBody /\ [][NextBody]_vars

SpecMarkup == InitMarkup /\ [][NextBody]_vars

SpecAttach == InitAttach /\ [][NextAttach]_vars

SpecRead == InitRead /\ [][NextRead]_vars

SpecTools == InitTools /\ [][NextTools]_vars

SpecRerun == InitAttach /\ [][NextRerun]_vars

SpecStrip == InitStrip /\ [][NextStrip]_vars

SpecCreds == InitCreds /\ [][NextCreds]_vars

\* ------------------------------------------------------------------------
\* Reference notions the properties are stated with
\* ------------------------------------------------------------------------
RECURSIVE PreOrder(_)
RECURSIVE PreOrderOfForest(_, _)

\* the nodes of a tree, a node before its children, children in order
PreOrder(tree) == <<tree>> \o PreOrderOfForest(Get(tree, "parts", <<>>), 1)

PreOrderOfForest(forest, i) ==
    IF i > Len(forest) THEN <<>>
    ELSE PreOrder(forest[i]) \o PreOrderOfForest(forest, i + 1)

DataOf(node) == Get(Get(node, "body", EmptyDict), "data", None)

\* the node has the target type and carries inline data
Candidate(node, mime_type) ==
    Get(node, "mimeType", None) = mime_type /\ Truthy(DataOf(node))

\* the node has the target type and its data decodes to a text that is not empty
HasText(node, mime_type) ==
    /\ Candidate(node, mime_type)
    /\ LET decoded == DecodeData(DataOf(node)) IN decoded.ok /\ decoded.text # <<>>

RECURSIVE PrunedPreOrder(_, _)
RECURSIVE PrunedPreOrderOfForest(_, _, _)

\* pre-order that does not descend below a candidate
PrunedPreOrder(tree, mime_type) ==
    IF Candidate(tree, mime_type) THEN <<tree>>
    ELSE <<tree>> \o PrunedPreOrderOfForest(Get(tree, "parts", <<>>), 1, mime_type)

PrunedPreOrderOfForest(forest, i, mime_type) ==
    IF i > Len(forest) THEN <<>>
    ELSE PrunedPreOrder(forest[i], mime_type)
         \o PrunedPreOrderOfForest(forest, i + 1, mime_type)

\* index of the first node of a sequence that has text of the type, 0 if none
FirstWithText(nodes, mime_type) ==
    IF \E i \in 1..Len(nodes) : HasText(nodes[i], mime_type)
    THEN CHOOSE i \in 1..Len(nodes) :
             /\ HasText(nodes[i], mime_type)
             /\ \A k \in 1..(i - 1) : ~HasText(nodes[k], mime_type)
    ELSE 0

\* index of the first node of a sequence with the type, 0 if none
FirstOfType(nodes, mime_type) ==
    IF \E i \in 1..Len(nodes) : Get(nodes[i], "mimeType", None) = mime_type
    THEN CHOOSE i \in 1..Len(nodes) :
             /\ Get(nodes[i], "mimeType", None) = mime_type
             /\ \A k \in 1..(i - 1) : Get(nodes[k], "mimeType", None) # mime_type
    ELSE 0

\* the decoded text of a node, None for a node without data or with data
\* that does not decode
TextOf(node) ==
    IF ~Truthy(DataOf(node)) THEN None
    ELSE LET decoded == DecodeData(DataOf(node)) IN
         IF decoded.ok THEN decoded.text ELSE None

\* ------------------------------------------------------------------------
\* C1
\* ------------------------------------------------------------------------
\* C1 as stated: extract_text_from_payload returns the decoded text of the
\* first node in depth-first pre-order whose mimeType equals the target, and
\* None when no node has that mimeType.
C1_FirstNodeOfType ==
    fn = "extract_text_from_payload" =>
        LET nodes == PreOrder(payload)
            i == FirstOfType(nodes, arg)
        IN result = IF i = 0 THEN None ELSE TextOf(nodes[i])

\* C1 amended: extract_text_from_payload returns the decoded text of the
\* first node, in depth-first pre-order that does not descend below a node of
\* the target type that carries inline data, whose mimeType equals the
\* target and whose inline data decodes to a text that is not empty; without
\* such a node it returns None, except that a root of the target type whose
\* own data decodes to the empty text returns that empty text.
C1_FirstNodeWithText ==
    fn = "extract_text_from_payload" =>
        LET nodes == PrunedPreOrder(payload, arg)
            i == FirstWithText(nodes, arg)
        IN result = IF i # 0 THEN TextOf(nodes[i])
                    ELSE IF Candidate(payload, arg) THEN TextOf(payload)
                    ELSE None

\* C1 witness: a node of the target type without text comes first, a
\* grandchild is returned although a later sibling of its parent has text too
C1_Witness ==
    /\ fn = "extract_text_from_payload"
    /\ Len(PreOrder(payload)) = 4
    /\ "parts" \in DOMAIN payload
    /\ Len(payload["parts"]) = 2
    /\ "parts" \in DOMAIN payload["parts"][1]
    /\ Get(payload, "mimeType", None) = arg
    /\ ~HasText(payload["parts"][1], arg)
    /\ HasText(payload["parts"][1]["parts"][1], arg)
    /\ HasText(payload["parts"][2], arg)
    /\ TextOf(payload["parts"][2]) # TextOf(payload["parts"][1]["parts"][1])
    /\ result = TextOf(payload["parts"][1]["parts"][1])

\* ------------------------------------------------------------------------
\* C2
\* ------------------------------------------------------------------------
\* C2: when no node's mimeType equals the requested type the result is None,
\* never the empty text; the empty text is returned only when a node of the
\* requested type exists.
C2_NotFoundIsNone ==
    fn = "extract_text_from_payload" =>
        /\ FirstOfType(PreOrder(payload), arg) = 0 => result = None
        /\ result = <<>> => FirstOfType(PreOrder(payload), arg) # 0

\* C2 witness: a tree of several nodes without a node of the requested type
C2_Witness ==
    /\ fn = "extract_text_from_payload"
    /\ Len(PreOrder(payload)) >= 3
    /\ FirstOfType(PreOrder(payload), arg) = 0
    /\ result = None

\* ------------------------------------------------------------------------
\* C3
\* ------------------------------------------------------------------------
HasNodeOfType(tree, mime_type) == FirstOfType(PreOrder(tree), mime_type) # 0

RECURSIVE WithoutHtmlData(_)
\* the tree with the body of every text/html node taken away
WithoutHtmlData(node) ==
    LET keys == IF Get(node, "mimeType", None) = TextHtml
                THEN DOMAIN node \ {"body"}
                ELSE DOMAIN node
    IN [k \in keys |->
           IF k = "parts"
           THEN [i \in 1..Len(node["parts"]) |-> WithoutHtmlData(node["parts"][i])]
           ELSE node[k]]

\* C3 as stated: in a tree with a text/plain node and a text/html node,
\* extract_email_body returns the content of a text/plain node.
C3_PlainNodeWins ==
    (/\ fn = "extract_email_body"
     /\ HasNodeOfType(payload, TextPlain)
     /\ HasNodeOfType(payload, TextHtml))
    => \E i \in 1..Len(PreOrder(payload)) :
           /\ Get(PreOrder(payload)[i], "mimeType", None) = TextPlain
           /\ result = TextOf(PreOrder(payload)[i])

\* C3 amended: in a tree with a text/html node in which the text/plain
\* traversal (pre-order, not descending below a text/plain node that carries
\* inline data) finds a text/plain node whose data decodes to a text that is
\* not empty, extract_email_body returns the content of the first such node,
\* and the result is the same with the content of every text/html node
\* taken away.
C3_PlainTextWins ==
    LET nodes == PrunedPreOrder(payload, TextPlain)
        i == FirstWithText(nodes, TextPlain)
    IN (/\ fn = "extract_email_body"
        /\ HasNodeOfType(payload, TextHtml)
        /\ i # 0)
       => /\ result = TextOf(nodes[i])
          /\ result = extract_email_body(WithoutHtmlData(payload))

\* C3 witness: a text/html node with content comes before the text/plain
\* node with content, and the plain content is the result
C3_Witness ==
    /\ fn = "extract_email_body"
    /\ "parts" \in DOMAIN payload
    /\ Len(payload["parts"]) >= 2
    /\ HasText(payload["parts"][1], TextHtml)
    /\ HasText(payload["parts"][2], TextPlain)
    /\ result = TextOf(payload["parts"][2])

\* ------------------------------------------------------------------------
\* C4
\* ------------------------------------------------------------------------
\* C4: extract_email_body never returns the empty text; when neither the
\* text/plain request nor the stripped text/html fallback yields content the
\* result is "No readable text content found."
C4_NeverEmpty ==
    fn = "extract_email_body" =>
        /\ result # <<>>
        /\ (/\ ~Truthy(extract_text_from_payload(payload, TextPlain))
            /\ ~Truthy(strip_html_tags(extract_text_from_payload(payload, TextHtml))))
           => result = NoReadableText

\* ------------------------------------------------------------------------
\* C5
\* ------------------------------------------------------------------------
\* the node has the target type and data that does not decode
FailsToDecode(node, mime_type) ==
    Candidate(node, mime_type) /\ ~DecodeData(DataOf(node)).ok

\* the node has the target type and data that decodes to the empty text
DecodesToEmpty(node, mime_type) ==
    /\ Candidate(node, mime_type)
    /\ LET decoded == DecodeData(DataOf(node)) IN decoded.ok /\ decoded.text = <<>>

\* C5: a node of the target type whose data fails to decode counts as a
\* node without content and the traversal goes on, into its children and
\* its later siblings: in a tree where some data fails to decode (and no
\* data decodes to the empty text) the result is the text of the first node
\* in pre-order whose data decodes, None if there is none.
C5_DecodeFailureIsAbsentContent ==
    LET nodes == PreOrder(payload)
        i == FirstWithText(nodes, arg)
    IN (/\ fn = "extract_text_from_payload"
        /\ \E k \in 1..Len(nodes) : FailsToDecode(nodes[k], arg)
        /\ \A k \in 1..Len(nodes) : ~DecodesToEmpty(nodes[k], arg))
       => result = IF i # 0 THEN TextOf(nodes[i]) ELSE None

\* ------------------------------------------------------------------------
\* C6
\* ------------------------------------------------------------------------
AttachmentIdOf(node) == Get(Get(node, "body", EmptyDict), "attachmentId", None)

\* a filename that is not empty, and inline data or an attachment id
Qualifies(node) ==
    /\ Truthy(Get(node, "filename", None))
    /\ (Truthy(DataOf(node)) \/ Truthy(AttachmentIdOf(node)))

QualifyingCount(tree) ==
    Cardinality({i \in 1..Len(PreOrder(tree)) : Qualifies(PreOrder(tree)[i])})

\* C6: the number of records get_attachment_info returns is the number of
\* nodes of the tree, the root included, with a filename that is not empty
\* and a body reference.
C6_CountOfQualifyingNodes ==
    (fn = "get_attachment_info" /\ ~result.raised)
    => Len(result.value) = QualifyingCount(payload)

\* ------------------------------------------------------------------------
\* C7
\* ------------------------------------------------------------------------
\* C7: without a MIME filter extract_attachments_recursive collects a node
\* if and only if it has a filename that is not empty and a body reference.
C7_CollectsIffQualifies ==
    (fn = "extract_attachments_recursive" /\ arg = None)
    => /\ Len(result) = QualifyingCount(payload)
       /\ \A r \in 1..Len(result) :
              \E i \in 1..Len(PreOrder(payload)) :
                  /\ Qualifies(PreOrder(payload)[i])
                  /\ result[r].filename = PreOrder(payload)[i]["filename"]

\* ------------------------------------------------------------------------
\* C8
\* ------------------------------------------------------------------------
\* what get_attachment_info collects: a part below the root without a
\* 'parts' key, with a filename and an attachment id
CollectedByInfo(node) ==
    /\ "parts" \notin DOMAIN node
    /\ Truthy(Get(node, "filename", None))
    /\ Truthy(AttachmentIdOf(node))

\* what extract_attachments_recursive collects under a filter
CollectedByRecursive(node, filter_mime_type) ==
    /\ "parts" \notin DOMAIN node
    /\ Truthy(Strip(Get(node, "filename", <<>>)))
    /\ (Truthy(filter_mime_type) => Get(node, "mimeType", <<>>) = filter_mime_type)

\* what identifies the node of a record
NodeKey(node) ==
    <<Get(node, "filename", <<>>), Get(node, "mimeType", <<>>),
      Get(Get(node, "body", EmptyDict), "attachmentId", <<>>)>>

RecordKey(record) == <<record.filename, record.mime_type, record.attachment_id>>

KeysOfNodes(nodes) == [i \in 1..Len(nodes) |-> NodeKey(nodes[i])]

KeysOfRecords(records) == [i \in 1..Len(records) |-> RecordKey(records[i])]

UntypedPart(node) == CollectedByInfo(node) /\ "mimeType" \notin DOMAIN node

\* C9: a part with a filename and a body reference and no recorded content
\* type is collected by get_attachment_info with an empty content type, and
\* the collection does not fail.
C9_UntypedPartCollected ==
    LET parts == Tail(PreOrder(payload)) IN
    (/\ fn = "get_attachment_info"
     /\ \E i \in 1..Len(parts) : UntypedPart(parts[i]))
    => /\ ~result.raised
       /\ \A i \in 1..Len(parts) :
              UntypedPart(parts[i]) =>
                  \E r \in 1..Len(result.value) :
                      /\ result.value[r].filename = parts[i]["filename"]
                      /\ result.value[r].mime_type = <<>>

\* ------------------------------------------------------------------------
\* C10
\* ------------------------------------------------------------------------
\* the scenario tree: a root with a text/plain part 'SGVsbG8=' and the
\* part r.pdf, application/pdf, size 2048, reference att1
ScenarioTree == MkNode(Multipart, <<PlainHello, PdfAttachment>>)

\* the record is that of the node, but for the size
RecordOfNode(record, node) ==
    /\ CollectedByInfo(node)
    /\ "mimeType" \in DOMAIN node
    /\ record.filename = node["filename"]
    /\ record.mime_type = node["mimeType"]
    /\ record.attachment_id = node["body"]["attachmentId"]

\* C10 as stated: a record carries the filename, the content type, the
\* declared size as the byte count (2048 for size 2048) and the reference.
C10_SizeIsByteCount ==
    (fn = "get_attachment_info" /\ ~result.raised)
    => \A r \in 1..Len(result.value) :
           \E i \in 1..Len(PreOrder(payload)) :
               /\ RecordOfNode(result.value[r], PreOrder(payload)[i])
               /\ ParseInt(result.value[r].size)
                  = [ok |-> TRUE, value |-> Get(PreOrder(payload)[i]["body"], "size", 0)]

\* the text of a declared size: '0.0 B', '1.2 KB', '2.0 KB'
SizeText(size) ==
    CASE size = 0 -> <<48, 46, 48, 32, 66>>
      [] size = 1280 -> <<49, 46, 50, 32, 75, 66>>
      [] size = 2048 -> <<50, 46, 48, 32, 75, 66>>

\* C10 amended: a record carries the filename, the content type, the
\* declared size as text in a unit with one decimal ('2.0 KB' for size 2048)
\* and the reference; for the scenario tree the output is the one record
\* r.pdf, application/pdf, '2.0 KB', att1.
C10_SizeIsFormatted ==
    (fn = "get_attachment_info" /\ ~result.raised)
    => /\ \A r \in 1..Len(result.value) :
              \E i \in 1..Len(PreOrder(payload)) :
                  /\ RecordOfNode(result.value[r], PreOrder(payload)[i])
                  /\ result.value[r].size
                     = SizeText(Get(PreOrder(payload)[i]["body"], "size", 0))
       /\ payload = ScenarioTree
          => result.value = <<[filename |-> <<114, 46, 112, 100, 102>>,
                               mime_type |-> ApplicationPdf,
                               size |-> <<50, 46, 48, 32, 75, 66>>,
                               attachment_id |-> <<97, 116, 116, 49>>]>>

\* C10 witness: the scenario tree gives the one record of r.pdf
C10_Witness ==
    /\ fn = "get_attachment_info"
    /\ payload = ScenarioTree
    /\ ~result.raised
    /\ Len(result.value) = 1
    /\ result.value[1].filename = <<114, 46, 112, 100, 102>>

\* ------------------------------------------------------------------------
\* Reference notions for the attachment reader
\* ------------------------------------------------------------------------
\* sub occurs in s
Contains(s, sub) ==
    \E i \in 0..(Len(s) - Len(sub)) : SubSeq(s, i + 1, i + Len(sub)) = sub

\* the text after the last '.' of a filename in lower case, empty when the
\* name has no '.'
ExtensionOf(filename) ==
    LET dots == {i \in 1..Len(filename) : filename[i] = 46} IN
    IF dots = {} THEN <<>>
    ELSE Lower(SubSeq(filename, 1 + (CHOOSE i \in dots : \A k \in dots : k <= i),
                      Len(filename)))

\* pdf, docx, txt
AllowList == {<<112, 100, 102>>, <<100, 111, 99, 120>>, <<116, 120, 116>>}

\* a node that is an attachment: a filename and an attachment id
IsAttachment(node) ==
    Truthy(Get(node, "filename", None)) /\ Truthy(AttachmentIdOf(node))

SupportedAttachment(node) ==
    IsAttachment(node) /\ ExtensionOf(node["filename"]) \in AllowList

\* index of the first supported attachment of a sequence of nodes, 0 if none
FirstSupported(nodes) ==
    IF \E i \in 1..Len(nodes) : SupportedAttachment(nodes[i])
    THEN CHOOSE i \in 1..Len(nodes) :
             /\ SupportedAttachment(nodes[i])
             /\ \A k \in 1..(i - 1) : ~SupportedAttachment(nodes[k])
    ELSE 0

ReadRan == fn = "gmail_read_attchment_content"

\* the call got the message from the mailbox
MessageFetched ==
    /\ ReadRan
    /\ Len(requests) >= 1
    /\ requests[1].api = "users.messages.get"
    /\ requests[1].ok

\* the ids of the attachments the call asked the mailbox for
DownloadedIds ==
    {requests[i].param : i \in {k \in 1..Len(requests) :
                                    requests[k].api = "users.messages.attachments.get"}}

\* ------------------------------------------------------------------------
\* C11
\* ------------------------------------------------------------------------
\* C11 as claimed: called without attachment_id on a fetched message whose
\* payload is a container, the
\* call downloads the first attachment, in depth-first order over the whole
\* payload tree, whose extension is in the allow-list.
\* Fails: only the top-level parts are looked at; with the payload
\* {parts: [{mimeType: multipart/mixed, parts: [r.pdf]}]} nothing is
\* downloaded and the "no supported attachment" message is returned.
C11_FirstInWholeTree ==
    (/\ MessageFetched
     /\ arg = None
     /\ ~IsAttachment(payload)
     /\ FirstSupported(PreOrder(payload)) # 0)
    => DownloadedIds
       = {AttachmentIdOf(PreOrder(payload)[FirstSupported(PreOrder(payload))])}

\* ------------------------------------------------------------------------
\* C12
\* ------------------------------------------------------------------------
\* C12: called without attachment_id on a fetched message none of whose
\* attachments has an extension in {pdf, docx, txt}, the call returns the
\* "no supported attachment" message and downloads no attachment.
C12_NoSupportedNoDownload ==
    (MessageFetched /\ arg = None /\ FirstSupported(PreOrder(payload)) = 0)
    => /\ result = Return(NoSupportedAttachment)
       /\ DownloadedIds = {}

\* C12 witness: the only attachment is image.png, a part of the payload,
\* and the call answered with the message
C12_Witness ==
    /\ MessageFetched
    /\ arg = None
    /\ payload = MkNode(Multipart, <<PngAttachment>>)
    /\ result = Return(NoSupportedAttachment)
    /\ requests = <<Request("users.messages.get", MessageId, TRUE)>>

\* ------------------------------------------------------------------------
\* C13
\* ------------------------------------------------------------------------
\* the attachments of the message are all outside the allow-list, and
\* there is one
OnlyUnsupported(tree) ==
    /\ \E i \in 1..Len(PreOrder(tree)) : IsAttachment(PreOrder(tree)[i])
    /\ FirstSupported(PreOrder(tree)) = 0

\* C13 as claimed: called without attachment_id on a fetched message whose
\* payload is a container and whose attachments all have an extension outside the allow-list, the returned
\* message names the filename of such an attachment.
\* Fails: with the one attachment image.png the message is 'No supported
\* attachment (.pdf, .docx, .txt) found in this message.'
C13_NamesUnsupportedFile ==
    (MessageFetched /\ arg = None /\ ~IsAttachment(payload) /\ OnlyUnsupported(payload))
    => \E i \in 1..Len(PreOrder(payload)) :
           /\ IsAttachment(PreOrder(payload)[i])
           /\ Contains(result.value, Lower(PreOrder(payload)[i]["filename"]))

\* ------------------------------------------------------------------------
\* C14
\* ------------------------------------------------------------------------
\* the call counted the tokens of the text it extracted
Counted == ReadRan /\ token_count # -1

\* the size-limit message: it names the cap and the count and holds none of
\* the text
IsSizeLimitMessage ==
    /\ Contains(result.value, IntToStr(MAX_TOKENS))
    /\ Contains(result.value, IntToStr(token_count))
    /\ ~Contains(result.value, Strip(extracted_text))

\* C14 as claimed: a count above the cap gives the size-limit message, a
\* count of at most the cap gives the whole extracted text.
\* Fails: the text " A\n" comes back as "A".
C14_WholeTextUnderCap ==
    Counted
    => IF token_count > MAX_TOKENS THEN IsSizeLimitMessage
       ELSE result.value = extracted_text

\* C14 amended: when the tokens of the extracted text were counted (the
\* text is not all whitespace), a count above the cap gives the size-limit
\* message naming the cap and the count and holding none of the text, and a
\* count of at most the cap gives the extracted text without its leading
\* and trailing whitespace and otherwise whole.
C14_StrippedTextUnderCap ==
    Counted
    => IF token_count > MAX_TOKENS THEN IsSizeLimitMessage
       ELSE result.value = Strip(extracted_text)

\* C14 witness: a text of exactly MAX_TOKENS tokens with whitespace around
\* it came back stripped
C14_Witness ==
    /\ Counted
    /\ token_count = MAX_TOKENS
    /\ extracted_text # Strip(extracted_text)
    /\ result.value = Strip(extracted_text)

\* ------------------------------------------------------------------------
\* C15
\* ------------------------------------------------------------------------
\* the limit the docstring of gmail_read_attchment_content states
DOCUMENTED_MAX_TOKENS == 3000

\* C15 as claimed: text of more than 3000 tokens is never returned.
\* Fails: MAX_TOKENS is 30000, and a text of 3001 tokens is returned.
C15_Over3000NeverReturned ==
    (Counted /\ token_count > DOCUMENTED_MAX_TOKENS)
    => result.value # Strip(extracted_text)

\* ------------------------------------------------------------------------
\* Reference notions for the tool handlers
\* ------------------------------------------------------------------------
\* the listing tools that take a maximum-results parameter
ListingTools ==
    {"gmail_list_messages", "gmail_search_and_summarize",
     "gmail_find_messages_with_attachments", "calendar_list_events", "drive_list_all_files"}

\* the remote calls that enumerate items
ListCalls == {"users.messages.list", "events.list", "files.list"}

\* the numbers of items the last invocation asked remote list calls for
RequestedCounts ==
    {requests[i].param : i \in {k \in 1..Len(requests) : requests[k].api \in ListCalls}}

\* ------------------------------------------------------------------------
\* C16
\* ------------------------------------------------------------------------
\* C16 as claimed: whatever fails in a remote call of a tool handler, the
\* handle never initialised included, the handler returns a message and no
\* exception escapes it.
\* Fails: gmail_list_messages catches HttpError only; with gmail_service
\* None the AttributeError of None.users() escapes, and so does a timeout
\* of messages().list.
C16_NoExceptionEscapes ==
    fn \in ListingTools => ~result.raised

\* ------------------------------------------------------------------------
\* C17
\* ------------------------------------------------------------------------
\* C17 as claimed: a listing tool never asks a remote list call for more
\* items than the caller's maximum-results value.
\* Fails: gmail_find_messages_with_attachments(max_results=1) asks for 5.
C17_RequestedAtMostCap ==
    fn \in ListingTools => \A n \in RequestedCounts : n <= arg.max_results

\* C17 amended: gmail_list_messages, gmail_search_and_summarize,
\* calendar_list_events and drive_list_all_files never ask a remote list
\* call for more items than the caller's maximum-results value;
\* gmail_find_messages_with_attachments asks for five times that value and
\* returns at most that many messages.
C17_RequestedAtMostCapOrFivefold ==
    fn \in ListingTools
    => IF fn = "gmail_find_messages_with_attachments"
       THEN /\ \A n \in RequestedCounts : n = 5 * arg.max_results
            /\ result.value.status = "success"
               => /\ result.value.count <= arg.max_results
                  /\ Len(result.value.messages) = result.value.count
       ELSE \A n \in RequestedCounts : n <= arg.max_results

\* C17 witness: asked for one message, the find tool requested five, met
\* two messages with attachments and returned the first only
C17_Witness ==
    /\ fn = "gmail_find_messages_with_attachments"
    /\ arg.max_results = 1
    /\ RequestedCounts = {5}
    /\ result.value.status = "success"
    /\ result.value.count = 1
    /\ Len(requests) = 2

\* ------------------------------------------------------------------------
\* C18
\* ------------------------------------------------------------------------
\* C18: once initialize_services has returned, no tool invocation, whether
\* it succeeds or fails, changes a service handle.
C18_HandlesWrittenAtStartupOnly ==
    [][fn # "none" => services' = services]_vars

\* C18 witness: with all four handles set, gmail_list_messages failed with
\* an escaping exception, and the handles are still set
C18_Witness ==
    /\ fn = "gmail_list_messages"
    /\ result.raised
    /\ services = Initialized

RECURSIVE EveryTagRemoved(_, _, _)
\* s from position i on without its tags, a tag being a '<', the text up
\* to the next '>' whatever it holds, and that '>'
EveryTagRemoved(s, i, out) ==
    IF i > Len(s) THEN out
    ELSE IF s[i] = 60 /\ FirstGt(s, i) > 0
    THEN EveryTagRemoved(s, FirstGt(s, i) + 1, out)
    ELSE EveryTagRemoved(s, i + 1, Append(out, s[i]))

\* C20 as claimed: strip_html_tags returns its input with every
\* angle-bracket-delimited tag removed, then the entities decoded, then
\* each run of whitespace collapsed to one space and the ends trimmed; an
\* empty or absent input gives ''.
\* Fails: '<a\n>' comes back as '<a >', the pattern '<.*?>' matching no
\* tag that holds a line feed.
C20_EveryTagRemoved ==
    fn = "strip_html_tags"
    => result = IF ~Truthy(arg) THEN <<>>
                ELSE Strip(CollapseSpace(Unescape(EveryTagRemoved(arg, 1, <<>>), 1, <<>>),
                                         1, <<>>))

\* ------------------------------------------------------------------------
\* Reference notions for gmail_find_messages_with_attachments
\* ------------------------------------------------------------------------
\* the last invocation was of the find tool and messages().list answered
FindListed ==
    /\ fn = "gmail_find_messages_with_attachments"
    /\ requests # <<>>
    /\ requests[1].ok

\* the message references messages().list answered with
Listing == requests[1].answered

\* the ids messages().get was asked for, in order
FetchedIds == [i \in 1..(Len(requests) - 1) |-> requests[i + 1].param]

\* x is given and is not all whitespace
Given(x) == x # None /\ \E i \in 1..Len(x) : ~IsSpace(x[i])

\* the extension table names ext, whatever its case and the blanks around it
KnownExtension(ext) ==
    \E i \in 1..Len(ATTACHMENT_MIME_TYPES) : ATTACHMENT_MIME_TYPES[i][1] = Lower(Strip(ext))

\* the MIME filter the caller's arguments ask for, None when they ask for
\* none: mime_type without the blanks around it, else the table's type for
\* attachment_type
RequestedFilter ==
    IF Given(arg.mime_type) THEN Strip(arg.mime_type)
    ELSE IF Given(arg.attachment_type) /\ KnownExtension(arg.attachment_type)
    THEN LET i == CHOOSE k \in 1..Len(ATTACHMENT_MIME_TYPES) :
                      ATTACHMENT_MIME_TYPES[k][1] = Lower(Strip(arg.attachment_type))
         IN ATTACHMENT_MIME_TYPES[i][2]
    ELSE None

\* node is an attachment the filter lets through: a node without parts, with
\* a filename that is not blank and, under a filter, of the filter's type
MatchesFilter(node, filter) ==
    /\ "parts" \notin DOMAIN node
    /\ Given(Get(node, "filename", None))
    /\ filter # None => Get(node, "mimeType", <<>>) = filter

\* messages().get answers for the reference and the message holds an
\* attachment the filter lets through
FetchableWithMatch(ref) ==
    /\ ~Mailbox[ref.id].raised
    /\ LET nodes == PreOrder(Get(Mailbox[ref.id].value, "payload", EmptyDict)) IN
       \E i \in 1..Len(nodes) : MatchesFilter(nodes[i], RequestedFilter)

\* messages().get fails for the reference
Unfetchable(ref) == Mailbox[ref.id].raised

\* the first n elements of s, all of s when it has fewer
FirstN(s, n) == SubSeq(s, 1, IF Len(s) < n THEN Len(s) ELSE n)

\* the message ids of the result, in order
ReturnedIds == [i \in 1..Len(result.value.messages) |-> result.value.messages[i].message_id]

\* ------------------------------------------------------------------------
\* C21
\* ------------------------------------------------------------------------
\* C21: when messages().list has answered, the result of
\* gmail_find_messages_with_attachments has status 'success' whichever
\* listed messages fail to be fetched, and its messages are, in listing
\* order, the first max_results listed messages that can be fetched and
\* hold a matching attachment.
C21_FailureSkipsOneMessage ==
    FindListed
    => /\ result.value.status = "success"
       /\ LET good == SelectSeq(Listing, FetchableWithMatch) IN
          ReturnedIds = [i \in 1..Len(FirstN(good, arg.max_results)) |-> good[i].id]

\* C21 witness: the first listed message could not be fetched, and the
\* message listed after it is in the result
C21_Witness ==
    /\ FindListed
    /\ Len(Listing) = 2
    /\ Unfetchable(Listing[1])
    /\ ~requests[2].ok
    /\ result.value.status = "success"
    /\ ReturnedIds = <<Listing[2].id>>

\* ------------------------------------------------------------------------
\* C22
\* ------------------------------------------------------------------------
\* C22: a successful result of gmail_find_messages_with_attachments has
\* count = len(messages) <= max_results, and no messages().get is issued
\* once max_results messages with a matching attachment have been fetched.
C22_CountCappedNoFetchBeyond ==
    (fn = "gmail_find_messages_with_attachments" /\ result.value.status = "success")
    => /\ result.value.count = Len(result.value.messages)
       /\ result.value.count <= arg.max_results
       /\ \A k \in 1..Len(FetchedIds) :
            Cardinality({j \in 1..(k - 1) : FetchableWithMatch([id |-> FetchedIds[j]])})
                < arg.max_results

\* C22 witness: two messages with attachments were listed, one was asked
\* for, and the second was never fetched
C22_Witness ==
    /\ FindListed
    /\ arg.max_results = 1
    /\ Len(Listing) = 2
    /\ FetchableWithMatch(Listing[1])
    /\ FetchableWithMatch(Listing[2])
    /\ FetchedIds = <<Listing[1].id>>
    /\ result.value.count = 1

\* ------------------------------------------------------------------------
\* C23
\* ------------------------------------------------------------------------
\* C23: each message of a successful result has attachment_count =
\* len(attachments) >= 1; under a MIME filter, from mime_type or from
\* attachment_type, every attachment listed has the filter's mime_type; a
\* fetched message without a matching attachment is not in the result.
C23_AttachmentsMatchFilter ==
    (fn = "gmail_find_messages_with_attachments" /\ result.value.status = "success")
    => /\ \A i \in 1..Len(result.value.messages) :
            LET m == result.value.messages[i] IN
            /\ m.attachment_count = Len(m.attachments)
            /\ m.attachment_count >= 1
            /\ RequestedFilter # None
               => \A k \in 1..Len(m.attachments) : m.attachments[k].mime_type = RequestedFilter
       /\ \A i \in 1..Len(ReturnedIds) : FetchableWithMatch([id |-> ReturnedIds[i]])

\* C23 witness: under the filter 'application/pdf' the message with n.txt
\* and r.pdf is returned with r.pdf alone, and the message without
\* attachment that was fetched before it is left out
C23_Witness ==
    /\ FindListed
    /\ RequestedFilter = ApplicationPdf
    /\ FetchedIds = <<Mail3.id, Mail4.id>>
    /\ ReturnedIds = <<Mail4.id>>
    /\ result.value.messages[1].attachment_count = 1
    /\ result.value.messages[1].attachments[1].filename = PdfAttachment.filename

\* ------------------------------------------------------------------------
\* C24
\* ------------------------------------------------------------------------
\* the result is the refusal of attachment_type
IsUnsupportedType ==
    /\ result.value.status = "error"
    /\ "supported_types" \in DOMAIN result.value

\* C24: with a mime_type that is not blank, attachment_type is not
\* validated, so it is never refused; without one, an attachment_type that
\* is not blank and not in the extension table gives a status 'error' result
\* with the supported types, and no remote call is issued.
C24_MimeTypeFirstElseTypeChecked ==
    fn = "gmail_find_messages_with_attachments"
    => /\ Given(arg.mime_type) => ~IsUnsupportedType
       /\ (~Given(arg.mime_type) /\ Given(arg.attachment_type)
              /\ ~KnownExtension(arg.attachment_type))
          => /\ IsUnsupportedType
             /\ Len(result.value.supported_types) = Len(ATTACHMENT_MIME_TYPES)
             /\ requests = <<>>

\* C24 witness: 'exe' was asked for together with a mime_type, the search
\* ran and returned a message
C24_Witness ==
    /\ FindListed
    /\ arg.attachment_type = <<101, 120, 101>>
    /\ Given(arg.mime_type)
    /\ result.value.status = "success"
    /\ result.value.count >= 1

\* ------------------------------------------------------------------------
\* C25
\* ------------------------------------------------------------------------
\* one of the four required variables is unset or empty
VariableMissing == \E k \in RequiredVariables : arg.env[k] = None \/ arg.env[k] = <<>>

\* the credential built from the environment is expired: an expiry was
\* given as a number and it is reached
BuiltExpired ==
    /\ ~VariableMissing
    /\ arg.env.GOOGLE_TOKEN_EXPIRES_AT # None
    /\ IsDigits(arg.env.GOOGLE_TOKEN_EXPIRES_AT)
    /\ arg.past

\* the token requests of the last call
Refreshes == {i \in 1..Len(requests) : requests[i].api = "oauth2.token"}

\* C25: load_credentials raises nothing and returns no expired credential;
\* it returns None when one of access token, refresh token, client id and
\* client secret is missing; it asks for a new token at most once, and only
\* when the credential built is expired; it returns None when that request
\* fails.
C25_NoExpiredCredential ==
    fn = "load_credentials"
    => /\ ~result.raised
       /\ result.value # None => result.value[5] = FALSE
       /\ VariableMissing => result.value = None
       /\ Cardinality(Refreshes) <= 1
       /\ Refreshes # {} => BuiltExpired
       /\ (Refreshes # {} /\ ~requests[1].ok) => result.value = None

\* C25 witness: the credential built was expired, the one refresh succeeded
\* and the refreshed credential was returned
C25_Witness ==
    /\ fn = "load_credentials"
    /\ BuiltExpired
    /\ Len(requests) = 1
    /\ requests[1].ok
    /\ result.value # None
    /\ result.value[1] = <<110, 101, 119>>

\* ------------------------------------------------------------------------
\* C26
\* ------------------------------------------------------------------------
\* C26 as claimed: after initialize_services the four handles are all set
\* or all None.
\* Fails: when getProfile raises, drive_service and gmail_service are
\* set and calendar_service and docs_service are None.
C26_HandlesAllOrNone ==
    fn # "none" => services \in {Initialized, Uninitialized}

\* ------------------------------------------------------------------------
\* C27
\* ------------------------------------------------------------------------
\* the tools that change the drive in more than one remote call
MultiStepTools == {"drive_create", "drive_share_file", "drive_get_shareable_link"}

\* the remote calls that create a file or grant a permission
MutatingCalls == {"files.create", "permissions.create"}

\* the returned text is one of the error messages of these tools
IsErrorMessage(text) ==
    \/ Contains(text, <<69, 114, 114, 111, 114, 32, 99, 114, 101, 97, 116, 105, 110, 103, 32, 102,
          105, 108, 101, 58>>)
    \/ Contains(text, <<69, 114, 114, 111, 114, 32, 115, 104, 97, 114, 105, 110, 103, 32, 102,
          105, 108, 101>>)
    \/ Contains(text, <<69, 114, 114, 111, 114, 32, 103, 101, 116, 116, 105, 110, 103, 32, 115,
          104, 97, 114, 101, 97, 98, 108, 101, 32, 108, 105, 110, 107>>)

\* C27 as claimed: when drive_create, drive_share_file or
\* drive_get_shareable_link returns an error message, the invocation has
\* created no file and granted no permission.
\* Fails: drive_share_file grants the permission, files().get raises, and
\* the error message is returned with the permission in place.
C27_ErrorMeansNothingCommitted ==
    (fn \in MultiStepTools /\ IsErrorMessage(result.value))
    => \A i \in 1..Len(requests) : ~(requests[i].api \in MutatingCalls /\ requests[i].ok)

\* ------------------------------------------------------------------------
\* C28
\* ------------------------------------------------------------------------
\* the positions of the send calls among the remote calls
Sends == {i \in 1..Len(requests) : requests[i].api = "users.messages.send"}

\* getProfile was asked before position i and answered
ProfileCheckedBefore(i) ==
    \E j \in 1..(i - 1) : requests[j].api = "users.getProfile" /\ requests[j].ok

\* C28: gmail_send_message issues messages().send at most once, and only
\* with gmail_service set and after getProfile has answered; with the
\* handle None or the profile check failed it returns its error message and
\* sends nothing.
C28_SendOnceAfterChecks ==
    fn = "gmail_send_message"
    => /\ Cardinality(Sends) <= 1
       /\ \A i \in Sends : services.gmail_service # None /\ ProfileCheckedBefore(i)
       /\ services.gmail_service = None
          => result.value = GmailNotInitialized /\ requests = <<>>
       /\ (requests # <<>> /\ ~requests[1].ok)
          => /\ StartsWith(result.value, GmailAuthenticationFailed)
             /\ Sends = {}

\* C28 witness: the profile answered and the message was sent, once
C28_Witness ==
    /\ fn = "gmail_send_message"
    /\ Len(requests) = 2
    /\ requests[1].api = "users.getProfile" /\ requests[1].ok
    /\ requests[2].api = "users.messages.send" /\ requests[2].ok
    /\ Contains(result.value, <<115, 101, 110, 116, 32, 115, 117, 99, 99, 101, 115, 115, 102, 117,
          108, 108, 121>>)

\* ------------------------------------------------------------------------
\* C29
\* ------------------------------------------------------------------------
\* the positions of the attachment downloads among the remote calls
DownloadCalls == {i \in 1..Len(requests) : requests[i].api = "users.messages.attachments.get"}

\* the parts of the payload
PartsOfPayload == Get(payload, "parts", <<>>)

\* C29: gmail_read_attchment_content downloads an attachment only after the
\* message was fetched and a part of it holds the downloaded id; with an
\* attachment_id supplied the downloaded id is that one; when no node of
\* the payload holds the supplied id, the "No attachment with ID" message
\* is returned and nothing is downloaded.
C29_DownloadOnlyOfMatchedPart ==
    ReadRan
    => /\ \A i \in DownloadCalls :
            /\ MessageFetched
            /\ i > 1
            /\ \E k \in 1..Len(PartsOfPayload) :
                   AttachmentIdOf(PartsOfPayload[k]) = requests[i].param
            /\ arg # None => requests[i].param = arg
       /\ (MessageFetched /\ arg # None
              /\ \A k \in 1..Len(PreOrder(payload)) : AttachmentIdOf(PreOrder(payload)[k]) # arg)
          => /\ result = Return(NoAttachmentWithId \o arg \o FoundInMessage \o MessageId
                                \o <<46>>)
             /\ DownloadCalls = {}

\* C29 witness: 'att3' was asked for, the second part of the message holds
\* it, and it is what was downloaded
C29_Witness ==
    /\ MessageFetched
    /\ arg = PngAttachment.body.attachmentId
    /\ Len(PartsOfPayload) = 2
    /\ AttachmentIdOf(PartsOfPayload[1]) # arg
    /\ AttachmentIdOf(PartsOfPayload[2]) = arg
    /\ Len(requests) = 2
    /\ requests[2].api = "users.messages.attachments.get"
    /\ requests[2].param = arg

\* ------------------------------------------------------------------------
\* C30
\* ------------------------------------------------------------------------
\* text holds a '<' with a '>' somewhere after it
HoldsTag(text) ==
    \E i, j \in 1..Len(text) : i < j /\ text[i] = 60 /\ text[j] = 62

\* C30: for every input string the output of strip_html_tags holds no
\* substring of the form '<...>', also when the input holds entity-encoded
\* angle brackets or a tag that spans a line break.
C30_OutputHoldsNoTag ==
    fn = "strip_html_tags" => ~HoldsTag(result)

====
